---- MODULE Spec2Model ----
(***************************************************************************)
(* A model of package multinet (src/multinet/listener.go): a Listener that *)
(* aggregates several net.Listeners behind one Accept/Addr/SetDeadline/     *)
(* Close interface.  Goroutines calling the public methods are the         *)
(* Threads; the goroutines started by the first Accept are the workers,    *)
(* one per underlying listener.                                            *)
(***************************************************************************)
EXTENDS Integers, Sequences, FiniteSets, TLC

\* Bounds of the model.
MaxListeners == 2
NumThreads == 2
MaxCalls == 3
MaxConns == 1
MaxDials == 2
MaxMembers == 3

Threads == 1..NumThreads

\* time.Time arguments of SetDeadline: the zero time (neverTimeout, no
\* deadline) and a time in the past (aLongTimeAgo).
Deadlines == {"zero", "past"}

\* error values; ln is the index of the underlying listener an error comes
\* from (0: an error made by the Listener itself, or nil).
Err(kind, ln) == [kind |-> kind, ln |-> ln]
ErrNil == Err("nil", 0)
ErrNoListeners == Err("multinet: no net.Listeners added to Listener", 0)
ErrClosedUse == Err("multinet: use of closed network connection", 0)
ErrNoSetDeadline(ln) == Err("multinet: net.Listener does not have a SetDeadline method", ln)

\* net.Conn values: the seq-th connection accepted by underlying listener ln.
Conn(ln, seq) == [ln |-> ln, seq |-> seq]
NilConn == Conn(0, 0)

\* type accept struct { c net.Conn; err error }
accept(c, err) == [c |-> c, err |-> err]
NoAccept == accept(NilConn, ErrNil)

\* Strings are sequences of characters.  net.Addr values, by what their
\* Network and String methods return: a TCP address, the address of a named
\* UNIX socket and the address of an unnamed one, whose String is empty.
NetAddr(network, str) == [network |-> network, str |-> str]
TCPAddr == NetAddr(<<"t", "c", "p">>, <<"[", ":", ":", "1", "]", ":", "8", "0">>)
UnixAddr == NetAddr(<<"u", "n", "i", "x">>, <<"/", "r", "u", "n", "/", "s">>)
UnnamedAddr == NetAddr(<<"u", "n", "i", "x">>, <<>>)

VARIABLES
    ls,          \* l.ls: per underlying listener, whether it has SetDeadline
    acceptOnce,  \* l.acceptOnce: "fresh", "running" or "done"
    closeOnce,   \* l.closeOnce
    wg,          \* l.wg: the WaitGroup counter
    doneC,       \* l.doneC: how many times close(l.doneC) has run (0: open)
    acceptC,     \* l.acceptC: the buffered results, oldest first
    wpc,         \* per worker goroutine: "none", "accept", "check", "send", "exit"
    held,        \* per worker: the (c, err) its ln.Accept() returned
    started,     \* per listener: how many workers were ever started for it
    lnClosed,    \* per underlying listener: Close has been called on it
    lnCloseCalls,\* per underlying listener: number of Close calls made on it
    lnCloseRes,  \* per underlying listener: what its Close returned
    deadline,    \* per underlying listener: the deadline it holds
    nextSeq,     \* per underlying listener: connections accepted so far
    pc,          \* per thread: where it is inside a public method
    idx,         \* per thread: loop index of the range loop it is in
    err,         \* per thread: the local variable err of Close / SetDeadline
    arg,         \* per thread: the argument t of SetDeadline
    late,        \* per thread: its current Accept began after close(l.doneC)
    calls,       \* number of method calls the threads have made
    ret,         \* per thread: what its last call returned (NoRet during a call)
    closeReturns,     \* number of Close calls that have returned
    closeFailures,    \* number of Close calls that returned a non-nil error
    shutdownReturned, \* the Close call that ran the shutdown has returned
    setLog,      \* per thread: the dl.SetDeadline calls its last SetDeadline made
    addrs,       \* per thread: the local variable addrs of Addr
    dials,       \* per underlying listener: how many clients connect to it
    pure,        \* the argument and the results of the pure functions
    connClosed   \* the connections that the Listener has closed

lvars == <<ls, acceptOnce, closeOnce, wg, doneC, acceptC>>
wvars == <<wpc, held, started>>
uvars == <<lnClosed, lnCloseCalls, lnCloseRes, deadline, nextSeq>>
tvars == <<pc, idx, err, arg, late, calls, ret>>
gvars == <<closeReturns, closeFailures, shutdownReturned>>
xvars == <<setLog, addrs, dials, pure, connClosed>>
vars == <<lvars, wvars, uvars, tvars, gvars, xvars>>

Lns == 1..Len(ls)

NoRet == [op |-> "none", c |-> NilConn, err |-> ErrNil, late |-> FALSE, ran |-> FALSE]
Returned(op, c, e, l, r) == [op |-> op, c |-> c, err |-> e, late |-> l, ran |-> r]

\* func Listen(ls ...net.Listener) *Listener
Listen(lns) ==
    /\ ls = lns
    /\ acceptOnce = "fresh"
    /\ closeOnce = "fresh"
    /\ wg = 0
    /\ doneC = 0
    /\ acceptC = <<>>

\* No pure function is being evaluated.
NoPure == [fn |-> "none"]

\* The state after Listen(lns...), for lns one of the listener lists of S,
\* when n clients will connect to each listener.
InitListener(S, n) ==
    /\ \E lns \in S : Listen(lns)
    /\ wpc = [i \in Lns |-> "none"]
    /\ held = [i \in Lns |-> NoAccept]
    /\ started = [i \in Lns |-> 0]
    /\ lnClosed = [i \in Lns |-> FALSE]
    /\ lnCloseCalls = [i \in Lns |-> 0]
    /\ lnCloseRes = [i \in Lns |-> ErrNil]
    /\ deadline = [i \in Lns |-> "zero"]
    /\ nextSeq = [i \in Lns |-> 0]
    /\ pc = [t \in Threads |-> "idle"]
    /\ idx = [t \in Threads |-> 0]
    /\ err = [t \in Threads |-> ErrNil]
    /\ arg = [t \in Threads |-> "zero"]
    /\ late = [t \in Threads |-> FALSE]
    /\ calls = 0
    /\ ret = [t \in Threads |-> NoRet]
    /\ closeReturns = 0
    /\ closeFailures = 0
    /\ shutdownReturned = FALSE
    /\ setLog = [t \in Threads |-> <<>>]
    /\ addrs = [t \in Threads |-> <<>>]
    /\ dials = [i \in Lns |-> n]
    /\ connClosed = {}

InitWith(S) == InitListener(S, MaxConns) /\ pure = NoPure

\* Lists of up to MaxListeners listeners that all have a SetDeadline method
\* (such as *net.TCPListener), and lists of listeners of which some have none.
DeadlineListeners == UNION {[1..n -> {TRUE}] : n \in 0..MaxListeners}
AnyListeners == UNION {[1..n -> BOOLEAN] : n \in 0..MaxListeners}

Init == InitWith(DeadlineListeners)

InitDeadline == InitWith(AnyListeners)

\* A thread begins a method call.
Call(t) ==
    /\ pc[t] = "idle"
    /\ calls < MaxCalls
    /\ calls' = calls + 1
    /\ setLog' = [setLog EXCEPT ![t] = <<>>]
    /\ addrs' = [addrs EXCEPT ![t] = <<>>]

\* A thread's call returns r; its local variables go out of scope.
Return(t, r) ==
    /\ pc' = [pc EXCEPT ![t] = "idle"]
    /\ ret' = [ret EXCEPT ![t] = r]
    /\ idx' = [idx EXCEPT ![t] = 0]
    /\ err' = [err EXCEPT ![t] = ErrNil]
    /\ arg' = [arg EXCEPT ![t] = "zero"]
    /\ late' = [late EXCEPT ![t] = FALSE]
    /\ closeReturns' = IF r.op = "Close" THEN closeReturns + 1 ELSE closeReturns
    /\ closeFailures' = IF r.op = "Close" /\ r.err # ErrNil THEN closeFailures + 1 ELSE closeFailures
    /\ shutdownReturned' = (shutdownReturned \/ r.ran)

\* A step of a call in progress.
NoReturn == UNCHANGED <<ret, gvars>>

\* The first step of a call that does not return in it.
Begin(t) ==
    /\ ret' = [ret EXCEPT ![t] = NoRet]
    /\ UNCHANGED gvars

\* A Do that tests its done flag without holding the mutex: callers that
\* arrive while the function runs run it again.
OnceDoUnlocked(once) == IF once = "done" THEN "skip" ELSE "run"

\* A Do that returns at once when another caller is running the function.
OnceDoNoWait(once) ==
    CASE once = "fresh" -> "run"
      [] OTHER -> "skip"

\* sync.Once.Do as seen by a caller: run the function, wait for the caller
\* that is running it, or skip it because it has completed.
OnceDo(once) ==
    CASE once = "fresh" -> "run"
      [] once = "running" -> "wait"
      [] OTHER -> "skip"

(***************************************************************************)
(* Accept                                                                  *)
(***************************************************************************)

\* An Accept with no check of the list's length.
NoListenersUnchecked == FALSE

\* if len(l.ls) == 0
NoListeners == Len(ls) = 0

\* Accept, from its entry to the end of l.acceptOnce.Do's first step: the
\* empty-list check, then Do either skips the function (workers already
\* started), blocks behind the caller running it, or begins running it with
\* l.wg.Add(len(l.ls)).
AcceptBegin(t) ==
    /\ IF NoListeners
       THEN /\ Return(t, Returned("Accept", NilConn, ErrNoListeners, doneC > 0, FALSE))
            /\ UNCHANGED <<acceptOnce, wg>>
       ELSE /\ Begin(t)
            /\ late' = [late EXCEPT ![t] = doneC > 0]
            /\ UNCHANGED <<err, arg>>
            /\ CASE OnceDo(acceptOnce) = "run" ->
                      /\ acceptOnce' = IF Len(ls) = 0 THEN "done" ELSE "running"
                      /\ wg' = wg + Len(ls)
                      /\ idx' = [idx EXCEPT ![t] = IF Len(ls) = 0 THEN 0 ELSE 1]
                      /\ pc' = [pc EXCEPT ![t] = IF Len(ls) = 0 THEN "select" ELSE "spawn"]
                 [] OnceDo(acceptOnce) = "wait" ->
                      /\ pc' = [pc EXCEPT ![t] = "acceptOnce"]
                      /\ UNCHANGED <<acceptOnce, wg, idx>>
                 [] OTHER ->
                      /\ pc' = [pc EXCEPT ![t] = "select"]
                      /\ UNCHANGED <<acceptOnce, wg, idx>>
    /\ UNCHANGED <<ls, closeOnce, doneC, acceptC, wvars, uvars, dials, pure, connClosed>>

\* A call of Accept out of the threads' budget of calls.
AcceptCall(t) == Call(t) /\ AcceptBegin(t)

\* A call of Accept by a thread that serves: it calls Accept again whenever
\* the last call has returned, as the loop of http.Serve does.
AcceptServe(t) ==
    /\ pc[t] = "idle"
    /\ UNCHANGED <<calls, setLog, addrs>>
    /\ AcceptBegin(t)

\* A caller blocked in l.acceptOnce.Do is released when the function has
\* completed.
AcceptOnceWait(t) ==
    /\ pc[t] = "acceptOnce"
    /\ acceptOnce = "done"
    /\ pc' = [pc EXCEPT ![t] = "select"]
    /\ UNCHANGED <<lvars, wvars, uvars, idx, err, arg, late, calls, ret, gvars, xvars>>

\* One iteration of the loop inside l.acceptOnce.Do: go func(ln) for the
\* idx-th listener.  After the last iteration Do completes.
AcceptSpawn(t) ==
    /\ pc[t] = "spawn"
    /\ LET i == idx[t] IN
        /\ started' = [started EXCEPT ![i] = @ + 1]
        /\ wpc' = [wpc EXCEPT ![i] = "accept"]
        /\ held' = [held EXCEPT ![i] = NoAccept]
        /\ IF i = Len(ls)
           THEN /\ acceptOnce' = "done"
                /\ pc' = [pc EXCEPT ![t] = "select"]
                /\ idx' = [idx EXCEPT ![t] = 0]
           ELSE /\ idx' = [idx EXCEPT ![t] = i + 1]
                /\ UNCHANGED <<acceptOnce, pc>>
    /\ UNCHANGED <<ls, closeOnce, wg, doneC, acceptC, uvars, err, arg, late, calls, ret, gvars, xvars>>

\* A select in Accept without the l.doneC case.
AcceptReadyNoDone == IF acceptC # <<>> THEN {"acceptC"} ELSE {}

\* The cases of Accept's select that are ready: a buffered result can be
\* received from l.acceptC, l.doneC is closed.
AcceptReady ==
    (IF acceptC # <<>> THEN {"acceptC"} ELSE {}) \cup (IF doneC > 0 THEN {"doneC"} ELSE {})

\* A select in Accept that reads the oldest result and leaves it in l.acceptC.
AcceptSelectPeek(t) ==
    /\ pc[t] = "select"
    /\ \E case \in AcceptReady :
        IF case = "acceptC"
        THEN Return(t, Returned("Accept", Head(acceptC).c, Head(acceptC).err, late[t], FALSE))
        ELSE Return(t, Returned("Accept", NilConn, ErrClosedUse, late[t], FALSE))
    /\ UNCHANGED <<lvars, wvars, uvars, calls, xvars>>

\* A select in Accept for which the signal is a value sent on l.doneC: the
\* caller that receives it takes it away.
AcceptSelectConsume(t) ==
    /\ pc[t] = "select"
    /\ \E case \in AcceptReady :
        IF case = "acceptC"
        THEN /\ acceptC' = Tail(acceptC)
             /\ doneC' = doneC
             /\ Return(t, Returned("Accept", Head(acceptC).c, Head(acceptC).err, late[t], FALSE))
        ELSE /\ acceptC' = acceptC
             /\ doneC' = doneC - 1
             /\ Return(t, Returned("Accept", NilConn, ErrClosedUse, late[t], FALSE))
    /\ UNCHANGED <<ls, acceptOnce, closeOnce, wg, wvars, uvars, calls, xvars>>

\* Accept's select: one of the ready cases is taken.
AcceptSelect(t) ==
    /\ pc[t] = "select"
    /\ \E case \in AcceptReady :
        IF case = "acceptC"
        THEN /\ acceptC' = Tail(acceptC)
             /\ Return(t, Returned("Accept", Head(acceptC).c, Head(acceptC).err, late[t], FALSE))
        ELSE /\ acceptC' = acceptC
             /\ Return(t, Returned("Accept", NilConn, ErrClosedUse, late[t], FALSE))
    /\ UNCHANGED <<ls, acceptOnce, closeOnce, wg, doneC, wvars, uvars, calls, xvars>>

(***************************************************************************)
(* The accept goroutine of underlying listener i                           *)
(***************************************************************************)

\* What ln.Accept() of underlying listener i can return now: an error once
\* the listener is closed, a timeout once its deadline has passed, and
\* otherwise its next connection or an error of its own.
LnAccept(i) ==
    IF lnClosed[i] THEN {accept(NilConn, Err("closed", i))}
    ELSE IF deadline[i] = "past" THEN {accept(NilConn, Err("timeout", i))}
    ELSE (IF nextSeq[i] < dials[i] THEN {accept(Conn(i, nextSeq[i] + 1), ErrNil)} ELSE {})
         \cup {accept(NilConn, Err("backend", i))}

\* c, err := ln.Accept()
WorkerAccept(i) ==
    /\ wpc[i] = "accept"
    /\ \E a \in LnAccept(i) :
        /\ held' = [held EXCEPT ![i] = a]
        /\ nextSeq' = [nextSeq EXCEPT ![i] = IF a.c # NilConn THEN @ + 1 ELSE @]
    /\ wpc' = [wpc EXCEPT ![i] = "check"]
    /\ UNCHANGED <<lvars, started, lnClosed, lnCloseCalls, lnCloseRes, deadline, tvars, gvars, xvars>>

\* A worker that closes the connection it holds before it returns.
WorkerExitClosing(i) ==
    /\ wpc' = [wpc EXCEPT ![i] = "exit"]
    /\ held' = [held EXCEPT ![i] = NoAccept]
    /\ wg' = wg - 1
    /\ connClosed' = IF held[i].c # NilConn THEN connClosed \cup {held[i].c} ELSE connClosed

\* The worker returns from l.accept; the deferred l.wg.Done() runs.  The
\* connection it holds, if any, is dropped; nothing calls its Close.
WorkerExit(i) ==
    /\ wpc' = [wpc EXCEPT ![i] = "exit"]
    /\ held' = [held EXCEPT ![i] = NoAccept]
    /\ wg' = wg - 1
    /\ connClosed' = connClosed

\* A worker without the first select: it goes on to send whatever it got.
WorkerCheckSkip(i) ==
    /\ wpc[i] = "check"
    /\ wpc' = [wpc EXCEPT ![i] = "send"]
    /\ UNCHANGED <<held, wg, connClosed>>
    /\ UNCHANGED <<ls, acceptOnce, closeOnce, doneC, acceptC, started, uvars, tvars, gvars>>
    /\ UNCHANGED <<setLog, addrs, dials, pure>>

\* A worker that gives up when its listener's Accept fails.
WorkerCheckStopOnError(i) ==
    /\ wpc[i] = "check"
    /\ IF doneC > 0 \/ held[i].err # ErrNil
       THEN WorkerExit(i)
       ELSE /\ wpc' = [wpc EXCEPT ![i] = "send"]
            /\ UNCHANGED <<held, wg, connClosed>>
    /\ UNCHANGED <<ls, acceptOnce, closeOnce, doneC, acceptC, started, uvars, tvars, gvars>>
    /\ UNCHANGED <<setLog, addrs, dials, pure>>

\* A first select that discards connections only: an error goes on to the
\* send even when l.doneC is closed.
WorkerCheckForwardErrors(i) ==
    /\ wpc[i] = "check"
    /\ IF doneC > 0 /\ held[i].err = ErrNil
       THEN WorkerExit(i)
       ELSE /\ wpc' = [wpc EXCEPT ![i] = "send"]
            /\ UNCHANGED <<held, wg, connClosed>>
    /\ UNCHANGED <<ls, acceptOnce, closeOnce, doneC, acceptC, started, uvars, tvars, gvars>>
    /\ UNCHANGED <<setLog, addrs, dials, pure>>

\* The first select of l.accept: return if l.doneC is closed, else go on.
WorkerCheck(i) ==
    /\ wpc[i] = "check"
    /\ IF doneC > 0
       THEN WorkerExit(i)
       ELSE /\ wpc' = [wpc EXCEPT ![i] = "send"]
            /\ UNCHANGED <<held, wg, connClosed>>
    /\ UNCHANGED <<ls, acceptOnce, closeOnce, doneC, acceptC, started, uvars, tvars, gvars>>
    /\ UNCHANGED <<setLog, addrs, dials, pure>>

\* A second select without the l.doneC case: a plain send.
SendReadyNoDone == IF Len(acceptC) < Len(ls) THEN {"acceptC"} ELSE {}

\* A second select on a channel with room for one result fewer than there
\* are listeners.
SendReadySmall ==
    (IF doneC > 0 THEN {"doneC"} ELSE {}) \cup (IF Len(acceptC) < Len(ls) - 1 THEN {"acceptC"} ELSE {})

\* A second select on a channel without a capacity: the send never blocks.
SendReadyUnbounded ==
    (IF doneC > 0 THEN {"doneC"} ELSE {}) \cup {"acceptC"}

\* The cases of the second select of l.accept that are ready: l.doneC is
\* closed, l.acceptC has room for the result.
SendReady ==
    (IF doneC > 0 THEN {"doneC"} ELSE {}) \cup (IF Len(acceptC) < Len(ls) THEN {"acceptC"} ELSE {})

\* A worker whose result overtakes the results that l.acceptC buffers.
WorkerSendFront(i) ==
    /\ wpc[i] = "send"
    /\ \E case \in SendReady :
        IF case = "doneC"
        THEN /\ WorkerExit(i)
             /\ acceptC' = acceptC
        ELSE /\ acceptC' = <<held[i]>> \o acceptC
             /\ wpc' = [wpc EXCEPT ![i] = "accept"]
             /\ held' = [held EXCEPT ![i] = NoAccept]
             /\ wg' = wg
             /\ connClosed' = connClosed
    /\ UNCHANGED <<ls, acceptOnce, closeOnce, doneC, started, uvars, tvars, gvars>>
    /\ UNCHANGED <<setLog, addrs, dials, pure>>

\* A worker that does not wait for room in l.acceptC: it drops the result
\* when the channel is full.
WorkerSendDrop(i) ==
    /\ wpc[i] = "send"
    /\ \E case \in SendReady \cup {"default"} :
        CASE case = "doneC" ->
               /\ WorkerExit(i)
               /\ acceptC' = acceptC
          [] case = "acceptC" ->
               /\ acceptC' = Append(acceptC, held[i])
               /\ wpc' = [wpc EXCEPT ![i] = "accept"]
               /\ held' = [held EXCEPT ![i] = NoAccept]
               /\ wg' = wg
               /\ connClosed' = connClosed
          [] OTHER ->
               /\ SendReady = {}
               /\ acceptC' = acceptC
               /\ wpc' = [wpc EXCEPT ![i] = "accept"]
               /\ held' = [held EXCEPT ![i] = NoAccept]
               /\ wg' = wg
               /\ connClosed' = connClosed
    /\ UNCHANGED <<ls, acceptOnce, closeOnce, doneC, started, uvars, tvars, gvars>>
    /\ UNCHANGED <<setLog, addrs, dials, pure>>

\* The second select of l.accept: one of the ready cases is taken.
WorkerSend(i) ==
    /\ wpc[i] = "send"
    /\ \E case \in SendReady :
        IF case = "doneC"
        THEN /\ WorkerExit(i)
             /\ acceptC' = acceptC
        ELSE /\ acceptC' = Append(acceptC, held[i])
             /\ wpc' = [wpc EXCEPT ![i] = "accept"]
             /\ held' = [held EXCEPT ![i] = NoAccept]
             /\ wg' = wg
             /\ connClosed' = connClosed
    /\ UNCHANGED <<ls, acceptOnce, closeOnce, doneC, started, uvars, tvars, gvars>>
    /\ UNCHANGED <<setLog, addrs, dials, pure>>

(***************************************************************************)
(* Close                                                                   *)
(***************************************************************************)

\* An err that every failing listener overwrites.
LastErr(e, lerr) == IF lerr # ErrNil THEN lerr ELSE e

\* if lerr != nil && err == nil { err = lerr }
FirstErr(e, lerr) == IF lerr # ErrNil /\ e = ErrNil THEN lerr ELSE e

\* The lowest-index error the listeners' Close calls have returned so far.
LowestCloseErr ==
    IF \E i \in Lns : lnCloseRes[i] # ErrNil
    THEN lnCloseRes[CHOOSE i \in Lns : lnCloseRes[i] # ErrNil /\ \A j \in 1..(i - 1) : lnCloseRes[j] = ErrNil]
    ELSE ErrNil

\* A Close that keeps err in the Listener and reports it on every call.
CloseSkippedReplay(t) == Return(t, Returned("Close", NilConn, LowestCloseErr, FALSE, FALSE))

\* Close when l.closeOnce.Do does not run the function in this call: the
\* err declared by "var err error" is returned as it is, nil.
CloseSkipped(t) == Return(t, Returned("Close", NilConn, ErrNil, FALSE, FALSE))

\* A Close that goes on to the listeners without closing l.doneC.
CloseDoneCSkipped(d) == d

\* close(l.doneC), the first statement of the function run by l.closeOnce.
CloseDoneC(d) == d + 1

\* Close, from its entry to close(l.doneC): l.closeOnce.Do either skips the
\* function and Close returns its nil err, blocks behind the caller running
\* it, or begins running it by closing l.doneC.
CloseCall(t) ==
    /\ Call(t)
    /\ CASE OnceDo(closeOnce) = "run" ->
              /\ closeOnce' = "running"
              /\ doneC' = CloseDoneC(doneC)
              /\ err' = [err EXCEPT ![t] = ErrNil]
              /\ idx' = [idx EXCEPT ![t] = IF Len(ls) = 0 THEN 0 ELSE 1]
              /\ pc' = [pc EXCEPT ![t] = IF Len(ls) = 0 THEN "wait" ELSE "closeLn"]
              /\ Begin(t)
              /\ UNCHANGED <<arg, late>>
         [] OnceDo(closeOnce) = "wait" ->
              /\ pc' = [pc EXCEPT ![t] = "closeOnce"]
              /\ Begin(t)
              /\ UNCHANGED <<closeOnce, doneC, err, idx, arg, late>>
         [] OTHER ->
              /\ CloseSkipped(t)
              /\ UNCHANGED <<closeOnce, doneC>>
    /\ UNCHANGED <<ls, acceptOnce, wg, acceptC, wvars, uvars, dials, pure, connClosed>>

\* A caller blocked in l.closeOnce.Do is released when the function has
\* completed; its own err is nil.
CloseOnceWait(t) ==
    /\ pc[t] = "closeOnce"
    /\ closeOnce = "done"
    /\ CloseSkipped(t)
    /\ UNCHANGED <<lvars, wvars, uvars, calls, xvars>>

\* A loop of Close that stops at the first listener whose Close fails.
CloseListenerStop(t) ==
    /\ pc[t] = "closeLn"
    /\ LET i == idx[t] IN
        \E lerr \in {ErrNil, Err("close", i)} :
            /\ lnCloseRes' = [lnCloseRes EXCEPT ![i] = lerr]
            /\ err' = [err EXCEPT ![t] = FirstErr(@, lerr)]
            /\ lnClosed' = [lnClosed EXCEPT ![i] = TRUE]
            /\ lnCloseCalls' = [lnCloseCalls EXCEPT ![i] = @ + 1]
            /\ IF i = Len(ls) \/ lerr # ErrNil
               THEN /\ pc' = [pc EXCEPT ![t] = "wait"]
                    /\ idx' = [idx EXCEPT ![t] = 0]
               ELSE /\ idx' = [idx EXCEPT ![t] = i + 1]
                    /\ pc' = pc
    /\ UNCHANGED <<lvars, wvars, deadline, nextSeq, arg, late, calls, ret, gvars, xvars>>

\* One iteration of the loop of Close: lerr := ln.Close() on the idx-th
\* listener, which returns nil or an error of its own.
CloseListener(t) ==
    /\ pc[t] = "closeLn"
    /\ LET i == idx[t] IN
        /\ \E lerr \in {ErrNil, Err("close", i)} :
            /\ lnCloseRes' = [lnCloseRes EXCEPT ![i] = lerr]
            /\ err' = [err EXCEPT ![t] = FirstErr(@, lerr)]
        /\ lnClosed' = [lnClosed EXCEPT ![i] = TRUE]
        /\ lnCloseCalls' = [lnCloseCalls EXCEPT ![i] = @ + 1]
        /\ IF i = Len(ls)
           THEN /\ pc' = [pc EXCEPT ![t] = "wait"]
                /\ idx' = [idx EXCEPT ![t] = 0]
           ELSE /\ idx' = [idx EXCEPT ![t] = i + 1]
                /\ pc' = pc
    /\ UNCHANGED <<lvars, wvars, deadline, nextSeq, arg, late, calls, ret, gvars, xvars>>

\* A Close that empties l.acceptC before it returns.
CloseWaitDrain(t) ==
    /\ pc[t] = "wait"
    /\ wg = 0
    /\ closeOnce' = "done"
    /\ acceptC' = <<>>
    /\ Return(t, Returned("Close", NilConn, err[t], FALSE, TRUE))
    /\ UNCHANGED <<ls, acceptOnce, wg, doneC, wvars, uvars, calls, xvars>>

\* The deferred l.wg.Wait() returns once the counter is zero; Do completes
\* and Close returns err.
CloseWait(t) ==
    /\ pc[t] = "wait"
    /\ wg = 0
    /\ closeOnce' = "done"
    /\ Return(t, Returned("Close", NilConn, err[t], FALSE, TRUE))
    /\ UNCHANGED <<ls, acceptOnce, wg, doneC, acceptC, wvars, uvars, calls, xvars>>

(***************************************************************************)
(* Addr                                                                    *)
(***************************************************************************)

\* ln.Addr() of the i-th underlying listener: the listeners are TCP and
\* UNIX listeners in turn.
LnAddr(i) == IF i % 2 = 1 THEN TCPAddr ELSE UnixAddr

\* Addr up to its loop: addrs := make(Addr, 0, len(l.ls)); with no listener
\* the loop has no iteration and Addr returns the empty addrs.
AddrCall(t) ==
    /\ Call(t)
    /\ IF Len(ls) = 0
       THEN Return(t, Returned("Addr", NilConn, ErrNil, doneC > 0, FALSE))
       ELSE /\ pc' = [pc EXCEPT ![t] = "addr"]
            /\ idx' = [idx EXCEPT ![t] = 1]
            /\ late' = [late EXCEPT ![t] = doneC > 0]
            /\ UNCHANGED <<err, arg>>
            /\ Begin(t)
    /\ UNCHANGED <<lvars, wvars, uvars, dials, pure, connClosed>>

\* A loop of Addr that puts each address in front of the ones it has.
AddrAppendFront(t) ==
    /\ pc[t] = "addr"
    /\ LET i == idx[t] IN
        /\ addrs' = [addrs EXCEPT ![t] = <<LnAddr(i)>> \o @]
        /\ IF i = Len(ls)
           THEN Return(t, Returned("Addr", NilConn, ErrNil, late[t], FALSE))
           ELSE /\ idx' = [idx EXCEPT ![t] = i + 1]
                /\ UNCHANGED <<pc, err, arg, late>>
                /\ NoReturn
    /\ UNCHANGED <<lvars, wvars, uvars, calls, setLog, dials, pure, connClosed>>

\* One iteration of the loop of Addr: addrs = append(addrs, ln.Addr()) for
\* the idx-th listener; after the last one Addr returns addrs.
AddrAppend(t) ==
    /\ pc[t] = "addr"
    /\ LET i == idx[t] IN
        /\ addrs' = [addrs EXCEPT ![t] = Append(@, LnAddr(i))]
        /\ IF i = Len(ls)
           THEN Return(t, Returned("Addr", NilConn, ErrNil, late[t], FALSE))
           ELSE /\ idx' = [idx EXCEPT ![t] = i + 1]
                /\ UNCHANGED <<pc, err, arg, late>>
                /\ NoReturn
    /\ UNCHANGED <<lvars, wvars, uvars, calls, setLog, dials, pure, connClosed>>

(***************************************************************************)
(* SetDeadline                                                             *)
(***************************************************************************)

\* The first loop of SetDeadline: the index of the first listener that is
\* no deadlineListener, 0 if all are.
FirstNoDeadline ==
    IF \E i \in Lns : ~ls[i]
    THEN CHOOSE i \in Lns : ~ls[i] /\ \A j \in 1..(i - 1) : ls[j]
    ELSE 0

\* A SetDeadline with a single loop, which sets the deadline of each
\* listener as soon as it has found it to be a deadlineListener.
SetDeadlineCallEager(t, d) ==
    /\ Call(t)
    /\ IF FirstNoDeadline # 0
       THEN /\ Return(t, Returned("SetDeadline", NilConn, ErrNoSetDeadline(FirstNoDeadline), FALSE, FALSE))
            /\ deadline' = [i \in Lns |-> IF i < FirstNoDeadline THEN d ELSE deadline[i]]
       ELSE IF Len(ls) = 0
       THEN /\ Return(t, Returned("SetDeadline", NilConn, ErrNil, FALSE, FALSE))
            /\ deadline' = deadline
       ELSE /\ pc' = [pc EXCEPT ![t] = "setDeadline"]
            /\ idx' = [idx EXCEPT ![t] = 1]
            /\ err' = [err EXCEPT ![t] = ErrNil]
            /\ arg' = [arg EXCEPT ![t] = d]
            /\ deadline' = deadline
            /\ late' = late
            /\ Begin(t)
    /\ UNCHANGED <<lvars, wvars, lnClosed, lnCloseCalls, lnCloseRes, nextSeq, dials, pure, connClosed>>

\* SetDeadline(d) up to the second loop: an error if some listener has no
\* SetDeadline method, before any deadline is set.
SetDeadlineCall(t, d) ==
    /\ Call(t)
    /\ IF FirstNoDeadline # 0
       THEN Return(t, Returned("SetDeadline", NilConn, ErrNoSetDeadline(FirstNoDeadline), FALSE, FALSE))
       ELSE IF Len(ls) = 0
       THEN Return(t, Returned("SetDeadline", NilConn, ErrNil, FALSE, FALSE))
       ELSE /\ pc' = [pc EXCEPT ![t] = "setDeadline"]
            /\ idx' = [idx EXCEPT ![t] = 1]
            /\ err' = [err EXCEPT ![t] = ErrNil]
            /\ arg' = [arg EXCEPT ![t] = d]
            /\ late' = late
            /\ Begin(t)
    /\ UNCHANGED <<lvars, wvars, uvars, dials, pure, connClosed>>

\* A second loop that returns at the first listener whose SetDeadline fails.
SetDeadlineApplyStop(t) ==
    /\ pc[t] = "setDeadline"
    /\ LET i == idx[t] IN
        \E lerr \in {ErrNil, Err("setdeadline", i)} :
            /\ deadline' = [deadline EXCEPT ![i] = IF lerr = ErrNil THEN arg[t] ELSE @]
            /\ setLog' = [setLog EXCEPT ![t] = Append(@, [ln |-> i, d |-> arg[t], err |-> lerr])]
            /\ IF i = Len(ls) \/ lerr # ErrNil
               THEN Return(t, Returned("SetDeadline", NilConn, FirstErr(err[t], lerr), FALSE, FALSE))
               ELSE /\ idx' = [idx EXCEPT ![t] = i + 1]
                    /\ err' = [err EXCEPT ![t] = FirstErr(@, lerr)]
                    /\ UNCHANGED <<pc, arg, late>>
                    /\ NoReturn
    /\ UNCHANGED <<lvars, wvars, lnClosed, lnCloseCalls, lnCloseRes, nextSeq, calls, addrs, dials, pure, connClosed>>

\* One iteration of the second loop: lerr := dl.SetDeadline(t) on the
\* idx-th listener, which takes the deadline and returns nil, or fails.
SetDeadlineApply(t) ==
    /\ pc[t] = "setDeadline"
    /\ LET i == idx[t] IN
        \E lerr \in {ErrNil, Err("setdeadline", i)} :
            /\ deadline' = [deadline EXCEPT ![i] = IF lerr = ErrNil THEN arg[t] ELSE @]
            /\ setLog' = [setLog EXCEPT ![t] = Append(@, [ln |-> i, d |-> arg[t], err |-> lerr])]
            /\ IF i = Len(ls)
               THEN Return(t, Returned("SetDeadline", NilConn, FirstErr(err[t], lerr), FALSE, FALSE))
               ELSE /\ idx' = [idx EXCEPT ![t] = i + 1]
                    /\ err' = [err EXCEPT ![t] = FirstErr(@, lerr)]
                    /\ UNCHANGED <<pc, arg, late>>
                    /\ NoReturn
    /\ UNCHANGED <<lvars, wvars, lnClosed, lnCloseCalls, lnCloseRes, nextSeq, calls, addrs, dials, pure, connClosed>>

(***************************************************************************)
(* The program                                                             *)
(***************************************************************************)

Next ==
    \/ \E t \in Threads : AcceptCall(t)
    \/ \E t \in Threads : AcceptOnceWait(t)
    \/ \E t \in Threads : AcceptSpawn(t)
    \/ \E t \in Threads : AcceptSelect(t)
    \/ \E i \in Lns : WorkerAccept(i)
    \/ \E i \in Lns : WorkerCheck(i)
    \/ \E i \in Lns : WorkerSend(i)
    \/ \E t \in Threads : CloseCall(t)
    \/ \E t \in Threads : CloseOnceWait(t)
    \/ \E t \in Threads : CloseListener(t)
    \/ \E t \in Threads : CloseWait(t)

Spec == Init /\ [][Next]_vars

\* The scheduling of goroutines: a goroutine that can take its next step
\* takes it.  Nothing obliges a thread to begin a call or an open listener to
\* return from its Accept; a closed listener's Accept returns.
ThreadStep(t) ==
    \/ AcceptOnceWait(t)
    \/ AcceptSpawn(t)
    \/ AcceptSelect(t)
    \/ CloseOnceWait(t)
    \/ CloseListener(t)
    \/ CloseWait(t)

WorkerStep(i) ==
    /\ i \in Lns
    /\ \/ lnClosed[i] /\ WorkerAccept(i)
       \/ WorkerCheck(i)
       \/ WorkerSend(i)

Fairness ==
    /\ \A t \in Threads : WF_vars(ThreadStep(t))
    /\ \A i \in 1..MaxListeners : WF_vars(WorkerStep(i))

FairSpec == Spec /\ Fairness

\* Accept and SetDeadline calls on a Listener that is not closed.
NextDeadline ==
    \/ \E t \in Threads : AcceptCall(t)
    \/ \E t \in Threads : AcceptOnceWait(t)
    \/ \E t \in Threads : AcceptSpawn(t)
    \/ \E t \in Threads : AcceptSelect(t)
    \/ \E i \in Lns : WorkerAccept(i)
    \/ \E i \in Lns : WorkerCheck(i)
    \/ \E i \in Lns : WorkerSend(i)
    \/ \E t \in Threads, d \in Deadlines : SetDeadlineCall(t, d)
    \/ \E t \in Threads : SetDeadlineApply(t)

SpecDeadline == InitDeadline /\ [][NextDeadline]_vars

\* Accept, Close and Addr calls.
NextAddr ==
    \/ Next
    \/ \E t \in Threads : AddrCall(t)
    \/ \E t \in Threads : AddrAppend(t)

SpecAddr == Init /\ [][NextAddr]_vars

\* Lists of at least one listener.
ServeListeners == UNION {[1..n -> {TRUE}] : n \in 1..MaxListeners}

InitServe == InitListener(ServeListeners, MaxDials) /\ pure = NoPure

\* A Listener that is never closed, served by threads that keep calling
\* Accept, while MaxDials clients connect to each listener.
NextServe ==
    \/ \E t \in Threads : AcceptServe(t)
    \/ \E t \in Threads : AcceptOnceWait(t)
    \/ \E t \in Threads : AcceptSpawn(t)
    \/ \E t \in Threads : AcceptSelect(t)
    \/ \E i \in Lns : WorkerAccept(i)
    \/ \E i \in Lns : WorkerCheck(i)
    \/ \E i \in Lns : WorkerSend(i)

\* The scheduling of a served Listener: a serving thread that can take a
\* step, a new call of Accept included, takes it; a worker that can take a
\* step takes it, and a worker waiting to send is not overtaken for ever,
\* since the senders blocked on a full channel are served in the order of
\* their arrival.  Nothing obliges a listener to return from its Accept.
FairnessServe ==
    /\ \A t \in Threads : WF_vars(AcceptServe(t) \/ ThreadStep(t))
    /\ \A i \in 1..MaxListeners : WF_vars(i \in Lns /\ WorkerCheck(i))
    /\ \A i \in 1..MaxListeners : SF_vars(i \in Lns /\ WorkerSend(i))

SpecServe == InitServe /\ [][NextServe]_vars

FairSpecServe == SpecServe /\ FairnessServe

(***************************************************************************)
(* type Addr []net.Addr                                                    *)
(***************************************************************************)

\* The result of a method that has not been called.
NotCalled == <<"not called">>

\* The members an Addr is made of, and the Addrs of up to MaxMembers members.
MemberAddrs == {TCPAddr, UnixAddr, UnnamedAddr}
CompositeAddrs == UNION {[1..n -> MemberAddrs] : n \in 0..MaxMembers}

\* A join that writes the separator in front of every element.
StringsJoinLeading(elems, sep) ==
    LET RECURSIVE WriteRest(_, _)
        WriteRest(b, rest) ==
            IF rest = <<>> THEN b ELSE WriteRest(b \o sep \o Head(rest), Tail(rest))
    IN WriteRest(<<>>, elems)

\* strings.Join(elems, sep): the empty string for no element, the element
\* for one; otherwise the first element is written, and then for each
\* further element the separator and the element.
StringsJoin(elems, sep) ==
    LET RECURSIVE WriteRest(_, _)
        WriteRest(b, rest) ==
            IF rest = <<>> THEN b ELSE WriteRest(b \o sep \o Head(rest), Tail(rest))
    IN CASE Len(elems) = 0 -> <<>>
         [] Len(elems) = 1 -> elems[1]
         [] OTHER -> WriteRest(elems[1], Tail(elems))

\* func (a Addr) join(fn): fn, here the method named by field, is applied
\* to each member in order and the results are joined with ",".
join(a, field) ==
    LET ss == [k \in 1..Len(a) |-> a[k][field]]
    IN StringsJoin(ss, <<",">>)

\* func (a Addr) Network() string, func (a Addr) String() string
Network(a) == join(a, "network")
String(a) == join(a, "str")

\* An Addr value none of whose methods has been called, and no Listener in
\* use.
InitJoin ==
    /\ InitListener({<<>>}, MaxConns)
    /\ \E a \in CompositeAddrs :
          pure = [fn |-> "Addr", a |-> a, network |-> NotCalled, str |-> NotCalled]

\* a.Network() is called.
AddrNetwork ==
    /\ pure.fn = "Addr"
    /\ pure.network = NotCalled
    /\ pure' = [pure EXCEPT !.network = Network(pure.a)]
    /\ UNCHANGED <<lvars, wvars, uvars, tvars, gvars, setLog, addrs, dials, connClosed>>

\* a.String() is called.
AddrString ==
    /\ pure.fn = "Addr"
    /\ pure.str = NotCalled
    /\ pure' = [pure EXCEPT !.str = String(pure.a)]
    /\ UNCHANGED <<lvars, wvars, uvars, tvars, gvars, setLog, addrs, dials, connClosed>>

NextJoin == AddrNetwork \/ AddrString

SpecJoin == InitJoin /\ [][NextJoin]_vars

(***************************************************************************)
(* Package rfc4193: Prefix, Parse, IPNet, String                           *)
(***************************************************************************)

\* a & b and a | b on bytes.
RECURSIVE BitAndN(_, _, _)
BitAndN(a, b, n) ==
    IF n = 0 THEN 0 ELSE (a % 2) * (b % 2) + 2 * BitAndN(a \div 2, b \div 2, n - 1)
BitAnd(a, b) == BitAndN(a, b, 8)
BitOr(a, b) == a + b - BitAnd(a, b)

\* 2^n
RECURSIVE Pow2(_)
Pow2(n) == IF n = 0 THEN 1 ELSE 2 * Pow2(n - 1)

\* A nil net.IP or net.IPMask.
NilBytes == <<>>

\* net.CIDRMask(ones, bits): bits / 8 bytes whose first ones bits are set.
CIDRMask(ones, bits) ==
    [k \in 1..(bits \div 8) |->
        LET r == ones - 8 * (k - 1)
        IN IF r >= 8 THEN 255 ELSE IF r <= 0 THEN 0 ELSE 256 - Pow2(8 - r)]

\* ones, _ := mask.Size(): the number of leading ones of a mask made of
\* ones followed by zeros, 0 for any other mask.
MaskSize(m) ==
    IF \E n \in 0..(8 * Len(m)) : CIDRMask(n, 8 * Len(m)) = m
    THEN CHOOSE n \in 0..(8 * Len(m)) : CIDRMask(n, 8 * Len(m)) = m
    ELSE 0

\* The first twelve bytes of an IPv4 address in its 16-byte form.
V4InV6Prefix == <<0, 0, 0, 0, 0, 0, 0, 0, 0, 0, 255, 255>>

\* ip.To4(): the 4-byte form of an IPv4 address, nil for any other address.
To4(ip) ==
    IF Len(ip) = 4 THEN ip
    ELSE IF Len(ip) = 16 /\ SubSeq(ip, 1, 12) = V4InV6Prefix THEN SubSeq(ip, 13, 16)
    ELSE NilBytes

\* ip.To16()
To16(ip) ==
    IF Len(ip) = 4 THEN V4InV6Prefix \o ip
    ELSE IF Len(ip) = 16 THEN ip
    ELSE NilBytes

\* ip.Equal(x): the same address, an IPv4 address being equal to its
\* 16-byte form.
IPEqual(ip, x) ==
    IF Len(ip) = Len(x) THEN ip = x
    ELSE IF Len(ip) = 4 /\ Len(x) = 16 THEN x = V4InV6Prefix \o ip
    ELSE IF Len(ip) = 16 /\ Len(x) = 4 THEN ip = V4InV6Prefix \o x
    ELSE FALSE

\* ip.Mask(mask)
IPMask(ip, mask) ==
    LET m == IF Len(mask) = 16 /\ Len(ip) = 4 /\ SubSeq(mask, 1, 12) = [k \in 1..12 |-> 255]
             THEN SubSeq(mask, 13, 16) ELSE mask
        a == IF Len(mask) = 4 /\ Len(ip) = 16 /\ SubSeq(ip, 1, 12) = V4InV6Prefix
             THEN SubSeq(ip, 13, 16) ELSE ip
    IN IF Len(a) # Len(m) THEN NilBytes ELSE [k \in 1..Len(a) |-> BitAnd(a[k], m[k])]

\* n.Contains(ip) of a *net.IPNet
Contains(n, ip) ==
    LET x == IF To4(ip) # NilBytes THEN To4(ip) ELSE ip
    IN /\ Len(x) = Len(n.IP)
       /\ \A k \in 1..Len(x) : BitAnd(n.IP[k], n.Mask[k]) = BitAnd(x[k], n.Mask[k])

\* var ula = &net.IPNet{IP: net.ParseIP("fc00::"), Mask: net.CIDRMask(7, 128)}
ula == [IP |-> <<252>> \o [k \in 1..15 |-> 0], Mask |-> CIDRMask(7, 128)]

\* Strings in CIDR notation, by what they denote: an IPv6 address of eight
\* 16-bit groups or an IPv4 address of four bytes, and a prefix length; and
\* a string that is no CIDR notation.
CIDR6(groups, ones) == [kind |-> "v6", addr |-> groups, ones |-> ones]
CIDR4(bytes, ones) == [kind |-> "v4", addr |-> bytes, ones |-> ones]
BadString == [kind |-> "bad", addr |-> <<>>, ones |-> 0]

\* The results of IPNet and String before they are called.
NoNet == [IP |-> NilBytes, Mask |-> NilBytes]
NoString == [kind |-> "not called", addr |-> <<>>, ones |-> 0]

\* The bytes of a sequence of 16-bit groups, and the groups of a sequence of
\* bytes.
GroupBytes(groups) ==
    [k \in 1..(2 * Len(groups)) |->
        IF k % 2 = 1 THEN groups[(k + 1) \div 2] \div 256 ELSE groups[k \div 2] % 256]
ByteGroups(bytes) ==
    [g \in 1..(Len(bytes) \div 2) |-> 256 * bytes[2 * g - 1] + bytes[2 * g]]

\* net.ParseCIDR(s): the address, and the network made of the address
\* masked with the mask of the prefix length.
ParseCIDR(s) ==
    CASE s.kind = "bad" -> [err |-> "parse", ip |-> NilBytes, cidr |-> [IP |-> NilBytes, Mask |-> NilBytes]]
      [] s.kind = "v4" ->
           LET ip == V4InV6Prefix \o s.addr
               m == CIDRMask(s.ones, 32)
           IN [err |-> "nil", ip |-> ip, cidr |-> [IP |-> IPMask(ip, m), Mask |-> m]]
      [] OTHER ->
           LET ip == GroupBytes(s.addr)
               m == CIDRMask(s.ones, 128)
           IN [err |-> "nil", ip |-> ip, cidr |-> [IP |-> IPMask(ip, m), Mask |-> m]]

\* (*net.IPNet).String(): the network number in groups and the length of
\* the mask.
IPNetString(n) == CIDR6(ByteGroups(n.IP), MaskSize(n.Mask))

\* type Prefix struct { Local bool; GlobalID [5]byte; SubnetID uint16; mask net.IPMask }
Prefix(local, globalID, subnetID, mask) ==
    [Local |-> local, GlobalID |-> globalID, SubnetID |-> subnetID, mask |-> mask]
NoPrefix == Prefix(FALSE, <<0, 0, 0, 0, 0>>, 0, NilBytes)

\* func Parse(s string) (*Prefix, error)
Parse(s) ==
    LET r == ParseCIDR(s)
        ip == r.ip
        cidr == r.cidr
        ones == MaskSize(cidr.Mask)
    IN IF r.err # "nil" THEN [p |-> NoPrefix, err |-> r.err]
       ELSE IF To16(ip) = NilBytes \/ To4(ip) # NilBytes
       THEN [p |-> NoPrefix, err |-> "rfc4193: invalid IPv6 address"]
       ELSE IF ~IPEqual(cidr.IP, ip) \/ ~Contains(ula, ip) \/ (ones # 48 /\ ones # 64)
       THEN [p |-> NoPrefix, err |-> "rfc4193: must specify a Unique Local Address /48 or /64 IPv6 prefix"]
       ELSE [p |-> Prefix(BitAnd(ip[1], 1) = 1, SubSeq(ip, 2, 6), 256 * ip[7] + ip[8], CIDRMask(ones, 128)),
             err |-> "nil"]

\* An IPNet that takes the prefix length from the subnet ID alone.
IPNetBySubnetID(p) ==
    LET first == IF p.Local THEN BitOr(252, 1) ELSE 252
        ip == <<first>> \o p.GlobalID \o <<p.SubnetID \div 256, p.SubnetID % 256>> \o [k \in 1..8 |-> 0]
        mask == IF p.SubnetID = 0 THEN CIDRMask(48, 128) ELSE CIDRMask(64, 128)
    IN [p |-> [p EXCEPT !.mask = mask], net |-> [IP |-> ip, Mask |-> mask]]

\* func (p *Prefix) IPNet() *net.IPNet: the network, and p, whose mask the
\* call sets if it is nil.
IPNet(p) ==
    LET first == IF p.Local THEN BitOr(252, 1) ELSE 252
        ip == <<first>> \o p.GlobalID \o <<p.SubnetID \div 256, p.SubnetID % 256>> \o [k \in 1..8 |-> 0]
        mask == IF p.mask = NilBytes
                THEN (IF p.SubnetID = 0 THEN CIDRMask(48, 128) ELSE CIDRMask(64, 128))
                ELSE p.mask
    IN [p |-> [p EXCEPT !.mask = mask], net |-> [IP |-> ip, Mask |-> mask]]

\* The strings given to Parse: no CIDR notation, IPv4 networks, and IPv6
\* addresses inside and outside fc00::/7 with and without a subnet ID and
\* interface bits, with prefix lengths around 48 and 64.
FirstGroups == {64512, 64513, 64770, 65152, 8193}
SecondGroups == {0, 3512}
SubnetGroups == {0, 1, 4112}
LastGroups == {0, 1}
PrefixLengths == {7, 32, 47, 48, 56, 63, 64, 65, 128}
CIDRStrings ==
    {BadString, CIDR4(<<192, 0, 2, 0>>, 24), CIDR4(<<10, 0, 0, 1>>, 32)}
    \cup {CIDR6(<<g1, g2, 0, g4, 0, 0, 0, g8>>, n) :
             g1 \in FirstGroups, g2 \in SecondGroups, g4 \in SubnetGroups,
             g8 \in LastGroups, n \in PrefixLengths}

\* A string that has not been parsed, and no Listener in use.
InitParse ==
    /\ InitListener({<<>>}, MaxConns)
    /\ \E s \in CIDRStrings :
          pure = [fn |-> "Parse", s |-> s, err |-> "not called", p |-> NoPrefix,
                  net |-> NoNet, str |-> NoString]

\* p, err := Parse(s)
ParseCall ==
    /\ pure.fn = "Parse"
    /\ pure.err = "not called"
    /\ pure' = [pure EXCEPT !.err = Parse(pure.s).err, !.p = Parse(pure.s).p]
    /\ UNCHANGED <<lvars, wvars, uvars, tvars, gvars, setLog, addrs, dials, connClosed>>

\* p.IPNet() on the Prefix that Parse returned.
PrefixIPNet ==
    /\ pure.fn = "Parse"
    /\ pure.err = "nil"
    /\ pure.net = NoNet
    /\ pure' = [pure EXCEPT !.net = IPNet(pure.p).net, !.p = IPNet(pure.p).p]
    /\ UNCHANGED <<lvars, wvars, uvars, tvars, gvars, setLog, addrs, dials, connClosed>>

\* p.String() on the Prefix that Parse returned: p.IPNet().String()
PrefixString ==
    /\ pure.fn = "Parse"
    /\ pure.err = "nil"
    /\ pure.str = NoString
    /\ pure' = [pure EXCEPT !.str = IPNetString(IPNet(pure.p).net), !.p = IPNet(pure.p).p]
    /\ UNCHANGED <<lvars, wvars, uvars, tvars, gvars, setLog, addrs, dials, connClosed>>

NextParse == ParseCall \/ PrefixIPNet \/ PrefixString

SpecParse == InitParse /\ [][NextParse]_vars

\* A Subnet that keeps the mask of p.
SubnetKeepMask(p, id) == [p EXCEPT !.SubnetID = id]

\* func (p *Prefix) Subnet(id uint16) *Prefix: a copy of p with the subnet
\* ID id and a /64 mask.
Subnet(p, id) == [p EXCEPT !.SubnetID = id, !.mask = CIDRMask(64, 128)]

\* Prefix values: made by the caller (mask nil), or with the /48 or /64 mask
\* that Parse, IPNet or Subnet has set; and subnet IDs.
GlobalIDs == {<<0, 0, 0, 0, 0>>, <<1, 0, 0, 0, 0>>, <<18, 52, 86, 120, 154>>}
SubnetIDs == {0, 1, 256, 4112, 65535}
Prefixes ==
    {Prefix(l, g, id, m) :
        l \in BOOLEAN, g \in GlobalIDs, id \in {0, 4112, 65535},
        m \in {NilBytes, CIDRMask(48, 128), CIDRMask(64, 128)}}

\* A Prefix p and a subnet ID, before any method of p is called; p0 keeps
\* the value p has at the start.
InitSubnet ==
    /\ InitListener({<<>>}, MaxConns)
    /\ \E p \in Prefixes, id \in SubnetIDs :
          pure = [fn |-> "Subnet", p0 |-> p, p |-> p, id |-> id, called |-> FALSE,
                  sub |-> NoPrefix, net |-> NoNet, pnet |-> NoNet]

\* sub := p.Subnet(id)
PrefixSubnet ==
    /\ pure.fn = "Subnet"
    /\ ~pure.called
    /\ pure' = [pure EXCEPT !.called = TRUE, !.sub = Subnet(pure.p, pure.id)]
    /\ UNCHANGED <<lvars, wvars, uvars, tvars, gvars, setLog, addrs, dials, connClosed>>

\* sub.IPNet()
SubnetIPNet ==
    /\ pure.fn = "Subnet"
    /\ pure.called
    /\ pure.net = NoNet
    /\ pure' = [pure EXCEPT !.net = IPNet(pure.sub).net, !.sub = IPNet(pure.sub).p]
    /\ UNCHANGED <<lvars, wvars, uvars, tvars, gvars, setLog, addrs, dials, connClosed>>

\* p.IPNet(), before or after p.Subnet(id)
ParentIPNet ==
    /\ pure.fn = "Subnet"
    /\ pure.pnet = NoNet
    /\ pure' = [pure EXCEPT !.pnet = IPNet(pure.p).net, !.p = IPNet(pure.p).p]
    /\ UNCHANGED <<lvars, wvars, uvars, tvars, gvars, setLog, addrs, dials, connClosed>>

NextSubnet == PrefixSubnet \/ SubnetIPNet \/ ParentIPNet

SpecSubnet == InitSubnet /\ [][NextSubnet]_vars

\* func (g *generator) generate(seed net.HardwareAddr) (*Prefix, error):
\* gid stands for out[15:], the last 40 bits of the SHA-1 digest of the
\* time of day and the seed.  The result is a /48 with the local flag set.
generate(seed, gid) ==
    IF Len(seed) = 6 \/ seed = NilBytes
    THEN [p |-> Prefix(TRUE, gid, 0, CIDRMask(48, 128)), err |-> "nil"]
    ELSE [p |-> NoPrefix,
          err |-> "rfc4193: expected an EUI-48 format MAC address or nil MAC address"]

\* The seeds given to Generate: nil, an EUI-48 address, an EUI-64 address.
Seeds == {NilBytes, <<222, 173, 190, 239, 222, 173>>, <<222, 173, 190, 239, 222, 173, 190, 239>>}

\* The Prefix values that Generate and Parse return without an error.
MadePrefixes ==
    {generate(seed, gid).p : seed \in {x \in Seeds : generate(x, <<0, 0, 0, 0, 0>>).err = "nil"},
                            gid \in GlobalIDs}
    \cup {Parse(str).p : str \in {x \in CIDRStrings : Parse(x).err = "nil"}}

\* A Prefix from Generate or Parse, in the hands of a caller; net is what
\* the last p.IPNet() returned.
InitUse ==
    /\ InitListener({<<>>}, MaxConns)
    /\ \E p \in MadePrefixes : pure = [fn |-> "Use", p |-> p, net |-> NoNet]

\* p = p.Subnet(id)
UseSubnet ==
    /\ pure.fn = "Use"
    /\ \E id \in SubnetIDs : pure' = [pure EXCEPT !.p = Subnet(pure.p, id)]
    /\ UNCHANGED <<lvars, wvars, uvars, tvars, gvars, setLog, addrs, dials, connClosed>>

\* p.SubnetID = id, an assignment to the exported field
UseAssignSubnetID ==
    /\ pure.fn = "Use"
    /\ \E id \in SubnetIDs : pure' = [pure EXCEPT !.p = [@ EXCEPT !.SubnetID = id]]
    /\ UNCHANGED <<lvars, wvars, uvars, tvars, gvars, setLog, addrs, dials, connClosed>>

\* net := p.IPNet()
UseIPNet ==
    /\ pure.fn = "Use"
    /\ pure' = [pure EXCEPT !.net = IPNet(pure.p).net, !.p = IPNet(pure.p).p]
    /\ UNCHANGED <<lvars, wvars, uvars, tvars, gvars, setLog, addrs, dials, connClosed>>

NextUse == UseSubnet \/ UseAssignSubnetID \/ UseIPNet

SpecUse == InitUse /\ [][NextUse]_vars

(***************************************************************************)
(* Package eui64: ParseIP and ParseMAC on byte sequences                   *)
(***************************************************************************)

\* Possible errors due to bad input.
errInvalidIP == Err("eui64: IP must be an IPv6 address", 0)
errInvalidMAC == Err("eui64: MAC address must be in EUI-48 or EUI-64 form", 0)
errInvalidPrefix == Err("eui64: prefix must be an IPv6 address prefix of /64 or less", 0)

\* a ^ b on bytes
BitXor(a, b) == a + b - 2 * BitAnd(a, b)

\* make([]byte, n)
MakeBytes(n) == [k \in 1..n |-> 0]

\* isAllZeroes(b)
isAllZeroes(b) == \A k \in 1..Len(b) : b[k] = 0

\* isIPv6Addr(ip): ip.To16() != nil and ip.To4() == nil
isIPv6Addr(ip) ==
    IF To16(ip) = NilBytes THEN FALSE ELSE To4(ip) = NilBytes

\* A ParseIP that leaves the universal/local bit as it finds it.
ParseIPNoFlip(ip) ==
    IF ~isIPv6Addr(ip)
    THEN [prefix |-> NilBytes, mac |-> NilBytes, err |-> errInvalidIP, ip |-> ip]
    ELSE LET isEUI48 == ip[12] = 255 /\ ip[13] = 254
             mac == IF isEUI48 THEN SubSeq(ip, 9, 11) \o SubSeq(ip, 14, 16) ELSE SubSeq(ip, 9, 16)
         IN [prefix |-> SubSeq(ip, 1, 8) \o MakeBytes(8), mac |-> mac, err |-> ErrNil, ip |-> ip]

\* func ParseIP(ip net.IP) (net.IP, net.HardwareAddr, error), with ip as
\* the call leaves it: prefix and mac are made by ParseIP and ip is only
\* read.
ParseIP(ip) ==
    IF ~isIPv6Addr(ip)
    THEN [prefix |-> NilBytes, mac |-> NilBytes, err |-> errInvalidIP, ip |-> ip]
    ELSE LET prefix == SubSeq(ip, 1, 8) \o SubSeq(MakeBytes(16), 9, 16)
             isEUI48 == ip[12] = 255 /\ ip[13] = 254
             macLen == IF isEUI48 THEN 6 ELSE 8
             src == IF isEUI48
                    THEN SubSeq(ip, 9, 11) \o SubSeq(ip, 14, 16)
                    ELSE SubSeq(ip, 9, 16)
             mac1 == [k \in 1..macLen |-> src[k]]
             mac == [mac1 EXCEPT ![1] = BitXor(@, 2)]
         IN [prefix |-> prefix, mac |-> mac, err |-> ErrNil, ip |-> ip]

\* func ParseMAC(prefix net.IP, mac net.HardwareAddr) (net.IP, error), with
\* prefix and mac as the call leaves them: ip is made by ParseMAC and the
\* bit is flipped in ip, prefix and mac are only read.
ParseMAC(prefix, mac) ==
    IF ~isIPv6Addr(prefix)
    THEN [ip |-> NilBytes, err |-> errInvalidIP, prefix |-> prefix, mac |-> mac]
    ELSE IF ~isAllZeroes(SubSeq(prefix, 9, 16))
    THEN [ip |-> NilBytes, err |-> errInvalidPrefix, prefix |-> prefix, mac |-> mac]
    ELSE IF Len(mac) # 6 /\ Len(mac) # 8
    THEN [ip |-> NilBytes, err |-> errInvalidMAC, prefix |-> prefix, mac |-> mac]
    ELSE LET ip0 == SubSeq(prefix, 1, 8) \o SubSeq(MakeBytes(16), 9, 16)
         IN IF Len(mac) = 8
            THEN LET ip1 == SubSeq(ip0, 1, 8) \o mac
                 IN [ip |-> [ip1 EXCEPT ![9] = BitXor(@, 2)], err |-> ErrNil,
                     prefix |-> prefix, mac |-> mac]
            ELSE LET ip1 == SubSeq(ip0, 1, 8) \o SubSeq(mac, 1, 3) \o SubSeq(ip0, 12, 16)
                     ip2 == [ip1 EXCEPT ![9] = BitXor(@, 2)]
                     ip3 == [ip2 EXCEPT ![12] = 255, ![13] = 254]
                     ip4 == SubSeq(ip3, 1, 13) \o SubSeq(mac, 4, 6)
                 IN [ip |-> ip4, err |-> ErrNil, prefix |-> prefix, mac |-> mac]

\* The prefixes of TestParseMAC: nil, short, IPv4, fe80::1, and the /64
\* prefixes fe80::, 2002:db8:: and ::.
EuiPrefixes ==
    {NilBytes, MakeBytes(15), <<192, 168, 1, 1>>,
     <<254, 128>> \o MakeBytes(13) \o <<1>>,
     <<254, 128>> \o MakeBytes(14),
     <<32, 2, 13, 184>> \o MakeBytes(12),
     MakeBytes(16)}

\* MAC addresses in the manner of TestParseMAC: nil, of length 5 and 9, and
\* EUI-48 and EUI-64 addresses over a few values of each byte, with and
\* without ff:fe in the middle.
EuiMACs ==
    {NilBytes, <<222, 173, 190, 239, 222>>, <<222, 173, 190, 239, 222, 173, 190, 239, 222>>}
    \cup {<<a, b, c, d, e, f>> : a \in {0, 2, 34}, b \in {0, 18}, c \in {127, 255},
                                 d \in {235, 255}, e \in {107, 254}, f \in {1, 64}}
    \cup {<<a, b, c, d, e, 235, 107, f>> : a \in {0, 2, 34}, b \in {0, 18}, c \in {127, 255},
                                           d \in {0, 255}, e \in {0, 254}, f \in {1, 64}}

\* ParseMAC has not been called; ParseIP has not been called.
NoParseMAC == [ip |-> NilBytes, err |-> ErrNil, prefix |-> NilBytes, mac |-> NilBytes]
NoParseIP == [prefix |-> NilBytes, mac |-> NilBytes, err |-> ErrNil, ip |-> NilBytes]

\* A prefix and a MAC address, with the copies that TestParseMAC keeps of
\* them (origPrefix, origMAC).
InitEui ==
    /\ InitListener({<<>>}, MaxConns)
    /\ \E x \in EuiPrefixes, m \in EuiMACs :
          pure = [fn |-> "eui64", step |-> "init", origPrefix |-> x, origMAC |-> m,
                  prefix |-> x, mac |-> m, pm |-> NoParseMAC, pi |-> NoParseIP]

\* ip, err := ParseMAC(prefix, mac)
EuiParseMAC ==
    /\ pure.fn = "eui64"
    /\ pure.step = "init"
    /\ LET r == ParseMAC(pure.prefix, pure.mac)
       IN pure' = [pure EXCEPT !.step = "mac", !.pm = r, !.prefix = r.prefix, !.mac = r.mac]
    /\ UNCHANGED <<lvars, wvars, uvars, tvars, gvars, setLog, addrs, dials, connClosed>>

\* prefix, mac, err := ParseIP(ip) on the address that ParseMAC returned.
EuiParseIP ==
    /\ pure.fn = "eui64"
    /\ pure.step = "mac"
    /\ pure.pm.err = ErrNil
    /\ LET r == ParseIP(pure.pm.ip)
       IN pure' = [pure EXCEPT !.step = "ip", !.pi = r, !.pm = [@ EXCEPT !.ip = r.ip]]
    /\ UNCHANGED <<lvars, wvars, uvars, tvars, gvars, setLog, addrs, dials, connClosed>>

NextEui == EuiParseMAC \/ EuiParseIP

SpecEui == InitEui /\ [][NextEui]_vars

(***************************************************************************)
(* Properties                                                              *)
(***************************************************************************)

InAccept(t) == pc[t] \in {"acceptOnce", "spawn", "select"}
InClose(t) == pc[t] \in {"closeOnce", "closeLn", "wait"}
Running(i) == wpc[i] \in {"accept", "check", "send"}

\* C1: accept workers are started at most once.  Before the first Accept
\* (l.acceptOnce untouched) no worker has been started; while the first
\* Accept starts them, the listeners before its loop index have one worker
\* each and the others none; afterwards every listener has had exactly one
\* worker started, however many Accept calls run or have run.
C1_WorkersStartedOnce ==
    /\ \A i \in Lns : started[i] <= 1
    /\ acceptOnce = "fresh" =>
          /\ \A i \in Lns : started[i] = 0 /\ wpc[i] = "none"
          /\ \A t \in Threads : ~InAccept(t)
    /\ acceptOnce = "running" =>
          \E t \in Threads :
              /\ pc[t] = "spawn"
              /\ \A i \in Lns : started[i] = IF i < idx[t] THEN 1 ELSE 0
    /\ acceptOnce = "done" => \A i \in Lns : started[i] = 1

\* Two Accept calls wait in select at once on a Listener of two listeners
\* whose workers have been started.
C1_Witness ==
    /\ Len(ls) = 2
    /\ acceptOnce = "done"
    /\ \A t \in Threads : pc[t] = "select"
    /\ \A i \in Lns : started[i] = 1

\* C2: the shutdown runs at most once and its error is reported once:
\* l.doneC is closed at most once, at most one Close call has returned a
\* non-nil error, and a Close call that did not run the shutdown itself has
\* returned nil.
C2_CloseErrorOnce ==
    /\ doneC <= 1
    /\ closeFailures <= 1
    /\ \A t \in Threads : ret[t].op = "Close" /\ ~ret[t].ran => ret[t].err = ErrNil

\* A Close call has returned an error and two more Close calls have returned.
C2_Witness ==
    /\ closeFailures = 1
    /\ closeReturns = 3

\* C3: no underlying listener is ever closed twice, and once a Close call has
\* returned every underlying listener has been closed exactly once.
C3_EachListenerClosedOnce ==
    /\ \A i \in Lns : lnCloseCalls[i] <= 1
    /\ closeReturns > 0 => \A i \in Lns : lnCloseCalls[i] = 1 /\ lnClosed[i]

\* Two Close calls have returned on a Listener of two listeners the first of
\* which failed to close.
C3_Witness ==
    /\ Len(ls) = 2
    /\ closeReturns >= 2
    /\ lnCloseRes[1] # ErrNil
    /\ lnCloseCalls[2] = 1

\* C4: an Accept call that began after close(l.doneC), on a Listener with at
\* least one listener, returns a nil connection and the closed-use error.
C4_LateAcceptClosedUse ==
    \A t \in Threads :
        ret[t].op = "Accept" /\ ret[t].late /\ Len(ls) >= 1 =>
            ret[t].c = NilConn /\ ret[t].err = ErrClosedUse

\* C5: under fair scheduling, an Accept call that is in progress when
\* l.doneC is closed, or that begins afterwards, returns.
C5_CloseReleasesAccept ==
    \A t \in Threads : (doneC > 0 /\ InAccept(t)) ~> (pc[t] = "idle")

\* An Accept call that began before Close has returned the closed-use error
\* while no listener had produced a result for it.
C5_Witness ==
    /\ acceptC = <<>>
    /\ \A i \in Lns : nextSeq[i] = 0
    /\ \E t \in Threads : ret[t].op = "Accept" /\ ~ret[t].late /\ ret[t].err = ErrClosedUse

\* C6: once the Close call that ran the shutdown has returned, no accept
\* worker is running.
C6_NoWorkerAfterClose ==
    shutdownReturned => \A i \in Lns : ~Running(i)

\* C7: under fair scheduling, and with a closed listener's Accept
\* returning, every Close call returns, and every worker that runs after
\* l.doneC is closed exits.
C7_CloseTerminates ==
    /\ \A t \in Threads : InClose(t) ~> (pc[t] = "idle")
    /\ \A i \in 1..MaxListeners : (i \in Lns /\ doneC > 0 /\ Running(i)) ~> (i \in Lns /\ wpc[i] = "exit")

\* The shutdown's Close call has returned after it waited for a worker that
\* was blocked sending into the full l.acceptC, with no Accept call reading.
C7_Witness ==
    /\ shutdownReturned
    /\ Len(ls) >= 1
    /\ Len(acceptC) = Len(ls)
    /\ \A t \in Threads : pc[t] = "idle"
    /\ \A i \in Lns : wpc[i] = "exit"

\* C8: the Close call that ran the shutdown returned the error of the
\* lowest-index listener whose Close failed (nil if none failed), and no
\* Close call returned anything else than that error or nil.
C8_LowestCloseError ==
    \A t \in Threads :
        ret[t].op = "Close" =>
            /\ ret[t].ran => ret[t].err = LowestCloseErr
            /\ ret[t].err \in {ErrNil, LowestCloseErr}

\* The shutdown's Close call has returned after both of two listeners failed
\* to close.
C8_Witness ==
    /\ Len(ls) = 2
    /\ \A i \in Lns : lnCloseRes[i] = Err("close", i)
    /\ \E t \in Threads : ret[t].op = "Close" /\ ret[t].ran /\ ret[t].err = Err("close", 1)

\* C9: on a Listener with no listeners no Accept call is ever inside the
\* once or the select (it returns in its first step), every Accept call has
\* returned a nil connection and the no-listeners error, no worker has been
\* started or announced to the WaitGroup, and every Close call has returned
\* nil.
C9_NoListeners ==
    Len(ls) = 0 =>
        /\ \A t \in Threads : ~InAccept(t)
        /\ \A t \in Threads :
              ret[t].op = "Accept" => ret[t].c = NilConn /\ ret[t].err = ErrNoListeners
        /\ acceptOnce = "fresh" /\ wg = 0
        /\ closeFailures = 0
        /\ \A t \in Threads : ret[t].op = "Close" => ret[t].err = ErrNil

\* On a Listener with no listeners, an Accept call made after Close has
\* returned, as have two Close calls, one of them after that Accept call.
C9_Witness ==
    /\ Len(ls) = 0
    /\ closeReturns = 2
    /\ \E t, u \in Threads : ret[t].op = "Accept" /\ ret[t].late /\ ret[u].op = "Close" /\ ~ret[u].ran

\* C10: on a Listener one of whose listeners has no SetDeadline method, no
\* SetDeadline call reaches its second loop, every SetDeadline call has
\* returned the no-SetDeadline error of the first such listener, and every
\* underlying listener holds the deadline it had at construction.
C10_ValidateBeforeMutate ==
    FirstNoDeadline # 0 =>
        /\ \A t \in Threads : pc[t] # "setDeadline"
        /\ \A t \in Threads :
              ret[t].op = "SetDeadline" => ret[t].err = ErrNoSetDeadline(FirstNoDeadline)
        /\ \A i \in Lns : deadline[i] = "zero"

\* SetDeadline has returned on a Listener whose first listener has a
\* SetDeadline method and whose second has none.
C10_Witness ==
    /\ ls = <<TRUE, FALSE>>
    /\ \E t \in Threads : ret[t].op = "SetDeadline" /\ ret[t].err = ErrNoSetDeadline(2)

\* The error of the first failed call of a log of dl.SetDeadline calls, nil
\* if none failed.
LowestLogErr(log) ==
    IF \E k \in 1..Len(log) : log[k].err # ErrNil
    THEN log[CHOOSE k \in 1..Len(log) : log[k].err # ErrNil /\ \A j \in 1..(k - 1) : log[j].err = ErrNil].err
    ELSE ErrNil

\* C11: when every listener has a SetDeadline method, each step of the
\* second loop of SetDeadline(d) calls the setter of the next listener in
\* order with d, whatever the earlier setters returned, and leaves the
\* deadlines of the other listeners as they are; the call returns after the
\* last listener, so its log holds exactly one setter call per listener, and
\* it returns the error of the lowest-index setter that failed (nil if none).
C11_SetDeadlineBestEffort ==
    [][\A t \in Threads :
          /\ (pc[t] = "setDeadline" /\ setLog'[t] # setLog[t]) =>
                LET i == idx[t] IN
                /\ Len(setLog[t]) = i - 1
                /\ \E lerr \in {ErrNil, Err("setdeadline", i)} :
                      /\ setLog'[t] = Append(setLog[t], [ln |-> i, d |-> arg[t], err |-> lerr])
                      /\ lerr = ErrNil => deadline'[i] = arg[t]
                /\ \A j \in Lns \ {i} : deadline'[j] = deadline[j]
                /\ pc'[t] = "idle" <=> i = Len(ls)
          /\ (ret'[t].op = "SetDeadline" /\ FirstNoDeadline = 0) =>
                /\ Len(setLog'[t]) = Len(ls)
                /\ \A i \in Lns : setLog'[t][i].ln = i
                /\ ret'[t].err = LowestLogErr(setLog'[t])
      ]_vars

\* SetDeadline with a time in the past has returned the error of the first
\* of two listeners, whose setter failed, after setting the deadline of the
\* second.
C11_Witness ==
    /\ Len(ls) = 2
    /\ \E t \in Threads :
          /\ ret[t].op = "SetDeadline"
          /\ ret[t].err = Err("setdeadline", 1)
          /\ Len(setLog[t]) = 2
          /\ setLog[t][2] = [ln |-> 2, d |-> "past", err |-> ErrNil]
    /\ deadline = <<"zero", "past">>

\* A time in the past is the deadline of every listener and no SetDeadline
\* call is in progress.
PastDeadlineInEffect ==
    /\ Len(ls) >= 1
    /\ \A i \in Lns : deadline[i] = "past"
    /\ \A t \in Threads : pc[t] # "setDeadline"

\* C12: while a deadline in the past is in effect on every listener after
\* SetDeadline has returned, an Accept call that returns, whether it was
\* pending or began afterwards, returns a nil connection and a timeout.
C12_PastDeadlineTimesOut ==
    [][\A t \in Threads :
          (PastDeadlineInEffect /\ pc[t] = "select" /\ pc'[t] = "idle") =>
              ret'[t].c = NilConn /\ ret'[t].err.kind = "timeout"
      ]_vars

\* The connections the threads' last calls returned, the workers hold and
\* l.acceptC buffers, as a sequence.
ConnsInFlight ==
    LET ts == [t \in Threads |-> ret[t].c]
        hs == [i \in Lns |-> held[i].c]
        cs == [k \in 1..Len(acceptC) |-> acceptC[k].c]
    IN ts \o hs \o cs

\* C13: a result reaches l.acceptC only as the pair a worker got from its
\* listener's Accept, a worker's pair changes only by a call of its
\* listener's Accept or by being handed over; an Accept call that returns
\* from its select returns the closed-use error or exactly the oldest pair
\* of l.acceptC, which it removes; and no connection is held, buffered or
\* returned in two places.
C13_AcceptForwards ==
    [][/\ \A t \in Threads :
            (pc[t] = "select" /\ pc'[t] = "idle") =>
                \/ /\ ret'[t].c = NilConn
                   /\ ret'[t].err = ErrClosedUse
                   /\ acceptC' = acceptC
                \/ /\ acceptC # <<>>
                   /\ accept(ret'[t].c, ret'[t].err) = Head(acceptC)
                   /\ acceptC' = Tail(acceptC)
       /\ acceptC' # acceptC =>
            \/ /\ acceptC # <<>>
               /\ acceptC' = Tail(acceptC)
               /\ \E t \in Threads : pc[t] = "select" /\ pc'[t] = "idle"
            \/ \E i \in Lns :
                  /\ wpc[i] = "send"
                  /\ acceptC' = Append(acceptC, held[i])
                  /\ held'[i] = NoAccept
       /\ \A i \in Lns :
            held'[i] # held[i] =>
                \/ held'[i] = NoAccept
                \/ wpc[i] = "accept" /\ held'[i] \in LnAccept(i)
       /\ \A j, k \in 1..Len(ConnsInFlight') :
            (j # k /\ ConnsInFlight'[j] # NilConn) => ConnsInFlight'[j] # ConnsInFlight'[k]
      ]_vars

\* Two Accept calls have returned the connections of two different
\* listeners.
C13_Witness ==
    /\ Len(ls) = 2
    /\ ret[1].op = "Accept" /\ ret[1].c = Conn(2, 1) /\ ret[1].err = ErrNil
    /\ ret[2].op = "Accept" /\ ret[2].c = Conn(1, 1) /\ ret[2].err = ErrNil

\* C14: on a Listener that is never closed and whose threads keep calling
\* Accept, under fair scheduling, every connection a listener's Accept has
\* returned to its worker is eventually returned by an Accept call.
C14_ConnEventuallyAccepted ==
    \A i \in 1..MaxListeners, k \in 1..MaxDials :
        (i \in Lns /\ held[i].c = Conn(i, k)) ~> (\E t \in Threads : ret[t].c = Conn(i, k))

\* The last connection of the second listener has been returned by Accept
\* while l.acceptC was full of results of the first listener.
C14_Witness ==
    /\ Len(ls) = 2
    /\ \E t \in Threads : ret[t].c = Conn(2, MaxDials)
    /\ Len(acceptC) = 2
    /\ \A k \in 1..Len(acceptC) : acceptC[k].err.ln = 1 \/ acceptC[k].c.ln = 1

From(a) == IF a.c # NilConn THEN a.c.ln ELSE a.err.ln

\* The number of results of listener i that l.acceptC buffers.
Buffered(i) == Cardinality({k \in 1..Len(acceptC) : From(acceptC[k]) = i})

\* No Accept call is receiving from l.acceptC.
NoReader == \A t \in Threads : pc[t] # "select"

\* C16: while no Accept call is reading, a worker that has a result to send
\* and none of its results in l.acceptC finds room in l.acceptC.
C16_FirstResultNeverBlocks ==
    \A i \in Lns :
        (NoReader /\ wpc[i] = "send" /\ Buffered(i) = 0) => "acceptC" \in SendReady

\* C16, as the code has it: l.acceptC never holds more results than there
\* are listeners, and a worker with a result to send finds no room only
\* when it holds exactly that many; if none of them is the worker's own,
\* another listener has two or more results buffered.
C16_RoomUnlessFull ==
    /\ Len(acceptC) <= Len(ls)
    /\ \A i \in Lns :
          (wpc[i] = "send" /\ "acceptC" \notin SendReady) =>
              /\ Len(acceptC) = Len(ls)
              /\ Buffered(i) = 0 => \E j \in Lns \ {i} : Buffered(j) >= 2

\* With no Accept call reading, the second worker has a result to send and
\* finds l.acceptC full of results of the first listener.
C16_Witness ==
    /\ Len(ls) = 2
    /\ NoReader
    /\ wpc[2] = "send"
    /\ doneC = 0
    /\ Buffered(1) = 2
    /\ SendReady = {}

\* C17: l.doneC is closed at most once and never reopened; the step that
\* closes it is the step of a Close call that begins the shutdown; and
\* while it is closed every Accept call in its select and every worker in
\* its second select has the l.doneC case ready, and every worker at its
\* first check exits.
C17_SignalFiresOnce ==
    [][/\ doneC' >= doneC
       /\ doneC' <= 1
       /\ doneC' # doneC =>
            /\ closeOnce = "fresh" /\ closeOnce' = "running"
            /\ \E t \in Threads : pc[t] = "idle" /\ pc'[t] \in {"closeLn", "wait"}
       /\ doneC > 0 =>
            /\ "doneC" \in AcceptReady
            /\ "doneC" \in SendReady
            /\ \A i \in Lns : (wpc[i] = "check" /\ wpc'[i] # "check") => wpc'[i] = "exit"
      ]_vars

\* After one close of l.doneC two Close calls have returned, the pending
\* Accept call has returned the closed-use error and both workers have
\* exited.
C17_Witness ==
    /\ Len(ls) = 2
    /\ doneC = 1
    /\ closeReturns = 2
    /\ \E t \in Threads : ret[t].op = "Accept" /\ ret[t].err = ErrClosedUse
    /\ \A i \in Lns : wpc[i] = "exit"

\* A step of thread t inside Addr: its entry, an iteration of its loop, or
\* the whole call when there is no listener.
AddrStep(t) ==
    \/ pc[t] = "idle" /\ pc'[t] = "addr"
    \/ pc[t] = "addr" /\ (pc'[t] # "addr" \/ idx'[t] # idx[t])
    \/ /\ Len(ls) = 0
       /\ pc' = pc
       /\ calls' = calls + 1
       /\ ret'[t].op = "Addr"
       /\ \A u \in Threads \ {t} : ret'[u] = ret[u]

\* C18: an Addr call returns no error and an Addr with one member per
\* listener, the i-th being the address of the i-th listener (no member for
\* no listener), also when it is called after l.doneC was closed; and no
\* step of Addr changes the Listener, the workers or the underlying
\* listeners.
C18_AddrInOrder ==
    [][\A t \in Threads :
          /\ AddrStep(t) => UNCHANGED <<lvars, wvars, uvars>>
          /\ ret'[t].op = "Addr" =>
                /\ ret'[t].err = ErrNil
                /\ Len(addrs'[t]) = Len(ls)
                /\ \A i \in Lns : addrs'[t][i] = LnAddr(i)
      ]_vars

\* An Addr call that began after l.doneC was closed has returned the
\* addresses of two listeners, and the shutdown has completed.
C18_Witness ==
    \E t \in Threads :
        /\ ret[t].op = "Addr"
        /\ ret[t].late
        /\ Len(ls) = 2
        /\ addrs[t] = <<TCPAddr, UnixAddr>>
        /\ shutdownReturned

\* The sum of the lengths of the first k strings of ss.
RECURSIVE LenSum(_, _)
LenSum(ss, k) == IF k = 0 THEN 0 ELSE LenSum(ss, k - 1) + Len(ss[k])

\* out is the strings of ss in order with one comma between neighbours:
\* the k-th string begins after the k - 1 strings and k - 1 commas before
\* it, a comma follows every string but the last, and nothing else is in
\* out.
IsCommaJoined(out, ss) ==
    LET n == Len(ss)
        start(k) == LenSum(ss, k - 1) + (k - 1)
    IN /\ Len(out) = LenSum(ss, n) + (IF n = 0 THEN 0 ELSE n - 1)
       /\ \A k \in 1..n :
             /\ SubSeq(out, start(k) + 1, start(k) + Len(ss[k])) = ss[k]
             /\ k < n => out[start(k) + Len(ss[k]) + 1] = ","

\* C19: Network() of an Addr is the members' Network values, and String()
\* the members' String values, in member order with a single comma between
\* neighbours and no separator in front or behind: the empty string for no
\* member, the member's own value for one.
C19_CommaJoined ==
    pure.fn = "Addr" =>
        LET a == pure.a IN
        /\ pure.network # NotCalled =>
              /\ IsCommaJoined(pure.network, [k \in 1..Len(a) |-> a[k].network])
              /\ Len(a) = 0 => pure.network = <<>>
              /\ Len(a) = 1 => pure.network = a[1].network
        /\ pure.str # NotCalled =>
              /\ IsCommaJoined(pure.str, [k \in 1..Len(a) |-> a[k].str])
              /\ Len(a) = 0 => pure.str = <<>>
              /\ Len(a) = 1 => pure.str = a[1].str

\* Network() and String() have been called on the Addr of two TCP listeners
\* and a UNIX listener: Network() has returned "tcp,tcp,unix".
C19_Witness ==
    /\ pure.fn = "Addr"
    /\ pure.a = <<TCPAddr, TCPAddr, UnixAddr>>
    /\ pure.network = <<"t", "c", "p", ",", "t", "c", "p", ",", "u", "n", "i", "x">>
    /\ pure.str # NotCalled

\* The n-th bit of an address given as 16-bit groups, the first bit being
\* bit 1.
GroupBit(groups, n) ==
    (groups[((n - 1) \div 16) + 1] \div Pow2(15 - ((n - 1) % 16))) % 2

\* s denotes a Unique Local Address network of 48 or 64 bits: an IPv6
\* address whose first seven bits are 1111110, with no bit set beyond the
\* prefix length.
IsULANetwork(s) ==
    /\ s.kind = "v6"
    /\ s.ones \in {48, 64}
    /\ <<GroupBit(s.addr, 1), GroupBit(s.addr, 2), GroupBit(s.addr, 3), GroupBit(s.addr, 4),
          GroupBit(s.addr, 5), GroupBit(s.addr, 6), GroupBit(s.addr, 7)>> = <<1, 1, 1, 1, 1, 1, 0>>
    /\ \A n \in (s.ones + 1)..128 : GroupBit(s.addr, n) = 0

\* C20: Parse returns a Prefix exactly for the strings that denote a Unique
\* Local Address network of 48 or 64 bits, and an error for every other
\* string (no CIDR notation, an IPv4 network, an address with bits beyond
\* the mask, an address outside fc00::/7, another prefix length); the IPNet
\* of the Prefix it returns has the address and the prefix length of the
\* string, and its String is the string.
C20_ParseRoundTrip ==
    (pure.fn = "Parse" /\ pure.err # "not called") =>
        /\ pure.err = "nil" <=> IsULANetwork(pure.s)
        /\ pure.net # NoNet =>
              /\ pure.net.IP = GroupBytes(pure.s.addr)
              /\ pure.net.Mask = CIDRMask(pure.s.ones, 128)
        /\ pure.str # NoString => pure.str = pure.s

\* fc01::/64, a /64 network whose subnet ID is zero, has been parsed and
\* converted back by IPNet and by String.
C20_Witness ==
    /\ pure.fn = "Parse"
    /\ pure.s = CIDR6(<<64513, 0, 0, 0, 0, 0, 0, 0>>, 64)
    /\ pure.err = "nil"
    /\ pure.net # NoNet
    /\ pure.str # NoString

\* The /48 network of a Prefix: the L bit and the Global ID behind the
\* seven bits of fc00::/7.
Parent48(p) ==
    [IP |-> <<IF p.Local THEN 253 ELSE 252>> \o p.GlobalID \o [k \in 1..10 |-> 0],
     Mask |-> [k \in 1..16 |-> IF k <= 6 THEN 255 ELSE 0]]

\* C21: p.Subnet(id) has the Local flag and the Global ID of p and the
\* subnet ID id, and the call leaves p as it was (only p.IPNet() changes p,
\* by setting its nil mask); the IPNet of the subnet is a /64 network whose
\* bytes 6 and 7 are id, whose first six bytes are those of p's /48, which
\* contains it, and whose last eight bytes are zero.
C21_SubnetIs64InParent ==
    (pure.fn = "Subnet" /\ pure.called) =>
        /\ pure.sub.Local = pure.p0.Local
        /\ pure.sub.GlobalID = pure.p0.GlobalID
        /\ pure.sub.SubnetID = pure.id
        /\ [pure.p EXCEPT !.mask = pure.p0.mask] = pure.p0
        /\ pure.p.mask # pure.p0.mask => pure.pnet # NoNet /\ pure.p0.mask = NilBytes
        /\ pure.net # NoNet =>
              /\ MaskSize(pure.net.Mask) = 64 /\ Len(pure.net.Mask) = 16
              /\ <<pure.net.IP[7], pure.net.IP[8]>> = <<pure.id \div 256, pure.id % 256>>
              /\ SubSeq(pure.net.IP, 1, 6) = SubSeq(Parent48(pure.p0).IP, 1, 6)
              /\ SubSeq(pure.net.IP, 9, 16) = <<0, 0, 0, 0, 0, 0, 0, 0>>
              /\ Contains(Parent48(pure.p0), pure.net.IP)

\* Subnet 0 of a Prefix that holds a /48 mask has been made and converted
\* by IPNet.
C21_Witness ==
    /\ pure.fn = "Subnet"
    /\ pure.called
    /\ pure.p0.mask = CIDRMask(48, 128)
    /\ pure.id = 0
    /\ pure.net # NoNet

\* C22: a result that a listener's Accept returns to its worker after
\* l.doneC was closed is discarded.  The worker that takes the result is at
\* its first check with l.doneC closed, and l.doneC stays closed; the step a
\* worker takes from its first check while l.doneC is closed ends the worker
\* and drops what it holds, leaving l.acceptC and every thread's result as
\* they are; hence a worker that reaches its send took its result while
\* l.doneC was open.
C22_LateResultDiscarded ==
    [][\A i \in Lns :
          /\ (doneC > 0 /\ wpc[i] = "accept" /\ wpc'[i] # "accept") =>
                wpc'[i] = "check" /\ doneC' > 0
          /\ (doneC > 0 /\ wpc[i] = "check") => doneC' > 0
          /\ (doneC > 0 /\ wpc[i] = "check" /\ wpc'[i] # "check") =>
                /\ wpc'[i] = "exit"
                /\ held'[i] = NoAccept
                /\ acceptC' = acceptC
                /\ ret' = ret
          /\ (wpc[i] # "send" /\ wpc'[i] = "send") => wpc[i] = "check" /\ doneC = 0
          /\ wpc[i] = "exit" => wpc'[i] = "exit"
      ]_vars

\* After l.doneC was closed and before Close closed the listener, the
\* listener's Accept returned a connection, which its worker has discarded:
\* the worker has exited and the connection is nowhere.
C22_Witness ==
    /\ Len(ls) = 1
    /\ doneC > 0
    /\ wpc[1] = "exit"
    /\ nextSeq[1] = 1
    /\ lnCloseRes[1] = ErrNil
    /\ acceptC = <<>>
    /\ \A t \in Threads : ret[t].op = "Accept" => ret[t].c = NilConn
    /\ \E t \in Threads : ret[t].op = "Accept" /\ ret[t].late

\* C23: in every state in which Close has closed at least one underlying
\* listener, l.doneC is closed: Close closes l.doneC before the first
\* ln.Close().
C23_SignalBeforeListeners ==
    (\E i \in Lns : lnClosed[i]) => doneC > 0

\* Close is in the middle of its loop: the first of two listeners is
\* closed, the second is not yet.
C23_Witness ==
    /\ Len(ls) = 2
    /\ lnClosed[1]
    /\ ~lnClosed[2]
    /\ \E t \in Threads : pc[t] = "closeLn" /\ idx[t] = 2
    /\ doneC > 0

\* C24: a connection that a worker discards when it sees l.doneC closed is
\* not closed by the Listener.  In the step in which a worker returns while
\* holding a connection, the connection is dropped: it is not in l.acceptC,
\* no call returns it, and no connection has had its Close called, then or
\* ever; the witness is a reachable state in which this has happened to the
\* one connection of a listener.
C24_DiscardedConnNotClosed ==
    [][\A i \in Lns :
          (held[i].c # NilConn /\ wpc[i] # "exit" /\ wpc'[i] = "exit") =>
              /\ doneC > 0
              /\ held'[i] = NoAccept
              /\ \A k \in 1..Len(acceptC') : acceptC'[k].c # held[i].c
              /\ \A t \in Threads : ret'[t].c # held[i].c
              /\ connClosed = {}
              /\ connClosed' = {}
      ]_vars

\* The listener has handed out its first connection and its worker has
\* returned; l.acceptC is empty and no Accept call has ever returned (each
\* thread is in its first call, one a blocked Accept, the other a Close), so
\* the connection was discarded; no connection has been closed.
C24_Witness ==
    /\ Len(ls) = 1
    /\ nextSeq[1] = 1
    /\ wpc[1] = "exit"
    /\ held[1] = NoAccept
    /\ acceptC = <<>>
    /\ calls = NumThreads
    /\ \E t \in Threads : InAccept(t)
    /\ \E t \in Threads : InClose(t) \/ ret[t].op = "Close"
    /\ connClosed = {}

\* C25: a worker ends only by seeing l.doneC closed.  A worker returns only
\* in a step taken with l.doneC closed; while l.doneC is open, the first
\* select passes whatever the worker holds, an error as much as a
\* connection, on to the second select, and the second select appends it to
\* l.acceptC and puts the worker back at ln.Accept.
C25_WorkerEndsOnlyOnDone ==
    [][\A i \in Lns :
          /\ (wpc[i] # "exit" /\ wpc'[i] = "exit") => doneC > 0
          /\ (doneC = 0 /\ wpc[i] = "check" /\ wpc'[i] # "check") =>
                wpc'[i] = "send" /\ held'[i] = held[i]
          /\ (doneC = 0 /\ wpc[i] = "send" /\ wpc'[i] # "send") =>
                /\ wpc'[i] = "accept"
                /\ acceptC' = Append(acceptC, held[i])
      ]_vars

\* The first listener's Accept has failed twice; both errors are in
\* l.acceptC and its worker is calling ln.Accept a third time.
C25_Witness ==
    /\ Len(ls) = 2
    /\ doneC = 0
    /\ Len(acceptC) = 2
    /\ acceptC[1] = accept(NilConn, Err("backend", 1))
    /\ acceptC[2] = accept(NilConn, Err("backend", 1))
    /\ wpc[1] = "accept"

\* The results that workers have got from ln.Accept and not yet sent or
\* discarded.
HeldResults == {i \in Lns : held[i] # NoAccept}

\* C26: l.acceptC never holds more than N = len(l.ls) results; a listener
\* has at most one worker and a result is held only by a worker between its
\* ln.Accept and its send or return, so at most N results are held; in all
\* at most 2N results are undelivered.
C26_BoundedBuildup ==
    /\ Len(acceptC) <= Len(ls)
    /\ \A i \in Lns : started[i] <= 1
    /\ \A i \in Lns : held[i] # NoAccept => wpc[i] \in {"check", "send"}
    /\ Len(acceptC) + Cardinality(HeldResults) <= 2 * Len(ls)

\* Two listeners, two results in l.acceptC and a further result in each
\* worker, blocked in its send: 2N results are undelivered.
C26_Witness ==
    /\ Len(ls) = 2
    /\ doneC = 0
    /\ Len(acceptC) = 2
    /\ \A i \in Lns : wpc[i] = "send" /\ held[i] # NoAccept
    /\ SendReady = {}

\* The error of an underlying listener's Accept after the Listener's Close
\* has closed that listener.
IsLnClosedErr(e) == e.kind = "closed"

\* C27: the error that an underlying listener returns from Accept because
\* Close closed it is never returned by an Accept call of the Listener: no
\* call has it as its result, l.acceptC never holds it and no worker ever
\* takes it to its send.
C27_LnClosedErrNeverReturned ==
    /\ \A t \in Threads : ~IsLnClosedErr(ret[t].err)
    /\ \A k \in 1..Len(acceptC) : ~IsLnClosedErr(acceptC[k].err)
    /\ \A i \in Lns : wpc[i] = "send" => ~IsLnClosedErr(held[i].err)

\* The first Accept comes after Close has returned: its worker gets the
\* closed listener's error and is about to discard it.
C27_Witness ==
    /\ shutdownReturned
    /\ \E t \in Threads : InAccept(t) \/ ret[t].op = "Accept"
    /\ \E i \in Lns : wpc[i] = "check" /\ held[i] = accept(NilConn, Err("closed", i))

\* C28: once any Close call has returned, whether it ran the shutdown or
\* found l.closeOnce taken, l.doneC is closed, every underlying listener has
\* been closed and the function of l.closeOnce has completed: no call is
\* still in the loop of Close or in its wg.Wait.
C28_CloseReturnsAfterShutdown ==
    closeReturns > 0 =>
        /\ doneC > 0
        /\ \A i \in Lns : lnClosed[i]
        /\ closeOnce = "done"
        /\ \A t \in Threads : pc[t] \notin {"closeLn", "wait"}

\* Two Close calls on two listeners have returned, one that ran the
\* shutdown and one that did not.
C28_Witness ==
    /\ Len(ls) = 2
    /\ closeReturns = 2
    /\ \E t \in Threads : ret[t].op = "Close" /\ ret[t].ran
    /\ \E t \in Threads : ret[t].op = "Close" /\ ~ret[t].ran /\ ret[t].err = ErrNil
    /\ calls = 2

\* Each thread has made one call, a SetDeadline that has returned nil after
\* setting the deadline of every listener.
AllSetDeadlinesReturned ==
    /\ Len(ls) > 0
    /\ calls = NumThreads
    /\ \A t \in Threads :
          /\ pc[t] = "idle"
          /\ ret[t].op = "SetDeadline"
          /\ ret[t].err = ErrNil
          /\ Len(setLog[t]) = Len(ls)

\* C29: on a Listener whose listeners all have SetDeadline and whose
\* setters all succeed, once all SetDeadline calls have returned, all
\* listeners hold the same deadline, the argument of one of the calls.
C29_DeadlinesUniform ==
    AllSetDeadlinesReturned =>
        \E t \in Threads : \A i \in Lns : deadline[i] = setLog[t][1].d

\* A step of a Close call: its entry into l.closeOnce.Do, close(l.doneC), an
\* ln.Close(), or its return.
CloseStep ==
    \/ closeReturns' # closeReturns
    \/ doneC' # doneC
    \/ closeOnce' # closeOnce
    \/ lnCloseCalls' # lnCloseCalls
    \/ \E t \in Threads : pc'[t] # pc[t] /\ (InClose(t) \/ pc'[t] \in {"closeOnce", "closeLn", "wait"})

\* C30: Close leaves l.acceptC untouched.  No step of a Close call changes
\* l.acceptC or closes a connection; a result leaves l.acceptC only as the
\* head that an Accept call receives and returns in the same step; and no
\* connection is ever closed by the Listener.
C30_CloseLeavesAcceptC ==
    [][/\ CloseStep => acceptC' = acceptC /\ connClosed' = connClosed
       /\ acceptC' # acceptC =>
             \/ \E i \in Lns : acceptC' = Append(acceptC, held[i])
             \/ /\ acceptC # <<>>
                /\ acceptC' = Tail(acceptC)
                /\ \E t \in Threads :
                      /\ pc[t] = "select"
                      /\ pc'[t] = "idle"
                      /\ ret'[t].op = "Accept"
                      /\ ret'[t].c = Head(acceptC).c
                      /\ ret'[t].err = Head(acceptC).err
       /\ connClosed' = {}
      ]_vars

\* Close has returned and a connection that a worker sent before the
\* shutdown is still in l.acceptC, not closed.
C30_Witness ==
    /\ shutdownReturned
    /\ \A i \in Lns : wpc[i] = "exit"
    /\ \E k \in 1..Len(acceptC) : acceptC[k].c # NilConn /\ acceptC[k].c \notin connClosed

\* ParseIP(ParseMAC(prefix, mac)) has been computed for an IPv6 prefix whose
\* last 8 bytes are zero and a MAC address of 6 or 8 bytes.
EuiRoundTripDone ==
    /\ pure.fn = "eui64"
    /\ pure.step = "ip"
    /\ Len(pure.origPrefix) = 16
    /\ Len(pure.origMAC) \in {6, 8}

\* The inputs of ParseMAC and of ParseIP are as they were before the calls.
EuiInputsUnmodified ==
    /\ pure.prefix = pure.origPrefix
    /\ pure.mac = pure.origMAC
    /\ pure.step = "ip" => pure.pm.ip = ParseMAC(pure.origPrefix, pure.origMAC).ip

\* C31 as stated: for every IPv6 prefix whose last 8 bytes are zero and
\* every MAC address of 6 or 8 bytes, ParseIP(ParseMAC(prefix, mac)) returns
\* the same prefix and the same MAC address without an error, and the
\* inputs are not modified.
C31_RoundTripAnyMAC ==
    EuiRoundTripDone =>
        /\ pure.pi.err = ErrNil
        /\ pure.pi.prefix = pure.origPrefix
        /\ pure.pi.mac = pure.origMAC
        /\ EuiInputsUnmodified

\* C31 amended: neither function modifies its inputs, and whenever the
\* address that ParseMAC returns is an IPv6 address to ParseIP (it is not of
\* the form ::ffff:a.b.c.d), ParseIP returns the same prefix; it returns
\* the same MAC address when the MAC address has 6 bytes or has 8 bytes
\* without ff:fe as its 4th and 5th, and for an 8-byte MAC address with
\* ff:fe there it returns the 6-byte address without those two bytes.  The
\* address that ParseMAC returns is refused by ParseIP exactly when the
\* prefix is :: and the bytes after it begin 00:00:ff:ff.
C31_RoundTrip ==
    /\ pure.fn = "eui64" => EuiInputsUnmodified
    /\ EuiRoundTripDone =>
          LET m == pure.origMAC
              ip == pure.pm.ip
          IN IF To4(ip) # NilBytes
             THEN /\ pure.pi.err = errInvalidIP
                  /\ isAllZeroes(pure.origPrefix)
                  /\ SubSeq(ip, 9, 12) = <<0, 0, 255, 255>>
             ELSE /\ pure.pi.err = ErrNil
                  /\ pure.pi.prefix = pure.origPrefix
                  /\ IF Len(m) = 8 /\ m[4] = 255 /\ m[5] = 254
                     THEN pure.pi.mac = SubSeq(m, 1, 3) \o SubSeq(m, 6, 8)
                     ELSE pure.pi.mac = m

\* The round trip of prefix fe80:: and the EUI-48 address 00:12:7f:eb:6b:40
\* through fe80::212:7fff:feeb:6b40.
C31_Witness ==
    /\ EuiRoundTripDone
    /\ pure.origMAC = <<0, 18, 127, 235, 107, 64>>
    /\ pure.origPrefix = <<254, 128>> \o MakeBytes(14)
    /\ pure.pm.ip = <<254, 128, 0, 0, 0, 0, 0, 0, 2, 18, 127, 255, 254, 235, 107, 64>>
    /\ pure.pi.mac = pure.origMAC
    /\ pure.pi.prefix = pure.origPrefix

\* C32: after any sequence of Subnet calls, assignments to SubnetID and
\* IPNet calls on a Prefix from Generate or Parse, the network that IPNet
\* returned has no address bit set beyond its mask: masking its address
\* with its mask gives the address.
C32_IPNetWellFormed ==
    (pure.fn = "Use" /\ pure.net # NoNet) =>
        IPMask(pure.net.IP, pure.net.Mask) = pure.net.IP

====
